---- MODULE Spec2Model ----
(***************************************************************************)
(* A model of the row-level filter engine of gorbac: the condition IR, the *)
(* SQL renderer (filter/render.go), the in-memory evaluator                *)
(* (filter/eval.go), AppendConditions and the role/permission composer     *)
(* (NewFilterProgram with its permission closure cache).                   *)
(*                                                                         *)
(* Go values are tagged records [t, v]; SQL text is kept as the tree of    *)
(* the fmt.Sprintf calls that build it, so that its placeholders can be    *)
(* read in left-to-right order and the predicate can be evaluated on a row.*)
(***************************************************************************)
EXTENDS Integers, Sequences, FiniteSets, TLC

VARIABLES
    stack,      \* conditions under construction by buildCondition (postfix)
    program,    \* the compiled Program's condition tree, or NoProgram
    renderCall,   \* the last RenderSQL call: its options, Statement and error
    grantCall,    \* the last IsGranted call: its vars, result and error
    appendCall,   \* the last AppendConditions call: where, args after each step
    rbac,       \* the RBAC graph: role id -> permissions and parents
    buildCall,      \* the last NewFilterProgram call and what it returned
    compileCall,    \* the last Engine.Compile call on a comparison and its error
    stdRole         \* one Role, its mutexes and maps, and the goroutines calling it

vars == <<stack, program, renderCall, grantCall, appendCall, rbac, buildCall,
          compileCall, stdRole>>

\* Body applied to value, with value computed once (a local variable of the
\* code that is assigned once and read several times).
With(value, Body(_)) == CHOOSE out \in {Body(once) : once \in {value}} : TRUE

-----------------------------------------------------------------------------
(* Go values *)

\* A value carries its Go type in t; two values are compared by t first, so
\* values of different types are unequal.
IntV(n)  == [t |-> "int", v |-> n]
StrV(s)  == [t |-> "string", v |-> s]
BoolV(b) == [t |-> "bool", v |-> b]
ListV(s) == [t |-> "list", v |-> s]
NilV     == [t |-> "nil", v |-> 0]
\* The string fmt.Sprintf(format, s) builds for a LIKE or JSON argument, kept
\* as its format and operand.
PatternV(format, s) == [t |-> "pattern", v |-> <<format, s>>]

\* toInt64: only integer kinds convert (the model has no float values).
toInt64(value) ==
    IF value.t = "int" THEN [v |-> value.v, err |-> ""]
    ELSE [v |-> 0, err |-> "cannot convert to int64"]

\* toAnySlice: a slice or array expands into its elements.
toAnySlice(value) ==
    IF value.t = "list" THEN [list |-> value.v, ok |-> TRUE]
    ELSE [list |-> <<>>, ok |-> FALSE]

-----------------------------------------------------------------------------
(* Dialects, schema *)

DialectSQLite   == "sqlite"
DialectMySQL    == "mysql"
DialectPostgres == "postgres"
DialectPostgresNamedArgs == "postgres_pgx"

FieldTypeString == "string"
FieldTypeInt    == "int"
FieldTypeBool   == "bool"

FieldKindScalar == "scalar"
FieldKindJSONList == "json_list"
FieldKindVirtualAlias == "virtual_alias"

\* Field.AllowedComparisonOps: a Go map that may be nil; the compiler reads
\* which operators are keys of it.
NilOps       == [isNil |-> TRUE, keys |-> {}]
OpsMap(keys) == [isNil |-> FALSE, keys |-> keys]

\* Field (schema.go)
Field(name, kind, type, table, column, path, aliasFor, ops) ==
    [Name |-> name, Kind |-> kind, Type |-> type, Table |-> table, Column |-> column,
     JSONPath |-> path, AliasFor |-> aliasFor, AllowedComparisonOps |-> ops]

\* The schema of the engine tests (creator_id:int, visibility:string on table
\* t), plus a bool column; the JSON list tags and its alias tag of the
\* comprehension tests; and aliases as SchemaFromStruct declares them (no
\* column, no comparison operator): label for tags, owner for creator_id, vis
\* for visibility, flag for pinned.
SchemaFields ==
    [creator_id |-> Field("creator_id", FieldKindScalar, FieldTypeInt, "t", "creator_id",
                          <<>>, "", OpsMap({"=", "!="})),
     visibility |-> Field("visibility", FieldKindScalar, FieldTypeString, "t", "visibility",
                          <<>>, "", OpsMap({"=", "!="})),
     pinned     |-> Field("pinned", FieldKindScalar, FieldTypeBool, "t", "pinned",
                          <<>>, "", OpsMap({"=", "!="})),
     tags       |-> Field("tags", FieldKindJSONList, FieldTypeString, "t", "payload",
                          <<"tags">>, "", NilOps),
     tag        |-> Field("tag", FieldKindVirtualAlias, FieldTypeString, "", "",
                          <<>>, "tags", NilOps),
     label      |-> Field("label", FieldKindVirtualAlias, FieldTypeString, "", "",
                          <<>>, "tags", OpsMap({})),
     owner      |-> Field("owner", FieldKindVirtualAlias, FieldTypeInt, "", "",
                          <<>>, "creator_id", OpsMap({})),
     vis        |-> Field("vis", FieldKindVirtualAlias, FieldTypeString, "", "",
                          <<>>, "visibility", OpsMap({})),
     flag       |-> Field("flag", FieldKindVirtualAlias, FieldTypeBool, "", "",
                          <<>>, "pinned", OpsMap({}))]

\* Schema.Field
SchemaField(name) ==
    IF name \in DOMAIN SchemaFields
    THEN [field |-> SchemaFields[name], ok |-> TRUE]
    ELSE [field |-> Field(name, "", "", "", "", <<>>, "", NilOps), ok |-> FALSE]

\* Schema.ResolveAlias: the target of a virtual alias, the field itself
\* otherwise.
ResolveAlias(name) ==
    LET f == SchemaField(name) IN
    IF ~f.ok THEN f
    ELSE IF f.field.Kind = FieldKindVirtualAlias THEN SchemaField(f.field.AliasFor)
    ELSE f

\* qualifyColumn: table.name for postgres, backtick-quoted table and name
\* otherwise.
qualifyColumn(d, field) ==
    [quote |-> IF d = DialectPostgres THEN "none" ELSE "backtick",
     table |-> field.Table, name |-> field.Column]

\* Field.columnExpr (the test schema has no per-dialect expression templates)
columnExpr(field, d) == qualifyColumn(d, field)

\* jsonArrayExpr: JSON_EXTRACT(col, '$.path') for sqlite and mysql, the chain
\* of -> for postgres, the empty string for any other dialect.
jsonArrayExpr(d, field) ==
    CASE d \in {DialectSQLite, DialectMySQL} ->
           [fn |-> "JSON_EXTRACT", column |-> qualifyColumn(d, field), path |-> field.JSONPath]
      [] d = DialectPostgres ->
           [fn |-> "->", column |-> qualifyColumn(d, field), path |-> field.JSONPath]
      [] OTHER -> [fn |-> "", column |-> [quote |-> "none", table |-> "", name |-> ""],
                   path |-> <<>>]

\* jsonArrayLengthExpr
jsonArrayLengthExpr(d, field) ==
    CASE d = DialectSQLite ->
           [fn |-> "JSON_ARRAY_LENGTH(COALESCE(%s, JSON_ARRAY()))", of |-> jsonArrayExpr(d, field)]
      [] d = DialectMySQL ->
           [fn |-> "JSON_LENGTH(COALESCE(%s, JSON_ARRAY()))", of |-> jsonArrayExpr(d, field)]
      [] d = DialectPostgres ->
           [fn |-> "jsonb_array_length(COALESCE(%s, '[]'::jsonb))", of |-> jsonArrayExpr(d, field)]
      [] OTHER -> [fn |-> "", of |-> jsonArrayExpr(d, field)]

-----------------------------------------------------------------------------
(* Condition IR (filter/ir.go) *)

LogicalAnd == "AND"
LogicalOr  == "OR"

CompareEq  == "="
CompareNeq == "!="
CompareLt  == "<"
CompareLte == "<="
CompareGt  == ">"
CompareGte == ">="

ConstantCondition(b)      == [k |-> "const", Value |-> b]
LogicalCondition(op, l, r) == [k |-> "logical", Operator |-> op, Left |-> l, Right |-> r]
NotCondition(c)           == [k |-> "not", Expr |-> c]
ComparisonCondition(l, op, r) == [k |-> "cmp", Left |-> l, Operator |-> op, Right |-> r]
InCondition(l, vs)        == [k |-> "in", Left |-> l, Values |-> vs]

FieldPredicateCondition(f) == [k |-> "pred", Field |-> f]
ElementInCondition(e, f)   == [k |-> "elemin", Element |-> e, Field |-> f]
ContainsCondition(f, val)   == [k |-> "contains", Field |-> f, Value |-> val]
StartsWithCondition(f, val) == [k |-> "startsWith", Field |-> f, Value |-> val]
EndsWithCondition(f, val)   == [k |-> "endsWith", Field |-> f, Value |-> val]
ListComprehensionCondition(kind, f, pred) ==
    [k |-> "compr", Kind |-> kind, Field |-> f, Predicate |-> pred]
StartsWithPredicate(prefix) == [k |-> "startsWith", Prefix |-> prefix]
EndsWithPredicate(suffix)   == [k |-> "endsWith", Suffix |-> suffix]
ContainsPredicate(sub)      == [k |-> "contains", Substring |-> sub]
SQLPredicateCondition(name, sql, args) ==
    [k |-> "sqlpred", Name |-> name, SQL |-> sql, Args |-> args]

FieldRef(name)   == [k |-> "field", Name |-> name]
ParamRef(name)   == [k |-> "param", Name |-> name]
LiteralValue(v)  == [k |-> "lit", Value |-> v]
FunctionValue(name, args) == [k |-> "fn", Name |-> name, Args |-> args]

\* DialectSQL: one template per dialect and the default.  A template is the
\* sequence of its pieces: plain text, white space, a {{name}} column
\* placeholder, a ? argument slot, or a {{ that is never closed; the empty
\* string is the empty sequence.
DialectSQL(default, sqlite, mysql, postgres) ==
    [Default |-> default, SQLite |-> sqlite, MySQL |-> mysql, Postgres |-> postgres]
Text(s)        == [tok |-> "text", s |-> s]
Space          == [tok |-> "space"]
ColumnSlot(name) == [tok |-> "field", name |-> name]
ArgSlot        == [tok |-> "arg"]
Unterminated   == [tok |-> "open"]

\* DialectSQL.template
template(sql, d) ==
    CASE d = DialectSQLite /\ sql.SQLite # <<>> -> sql.SQLite
      [] d = DialectMySQL /\ sql.MySQL # <<>> -> sql.MySQL
      [] d = DialectPostgres /\ sql.Postgres # <<>> -> sql.Postgres
      [] OTHER -> sql.Default

\* Bindings: a Go map that may be nil.
NilBindings   == [isNil |-> TRUE, m |-> <<>>]
Bindings(m)   == [isNil |-> FALSE, m |-> m]

-----------------------------------------------------------------------------
(* Evaluator (filter/eval.go) *)

evalValueExpr(expr, evars) ==
    CASE expr.k = "field" ->
           IF expr.Name \in DOMAIN evars
           THEN [v |-> evars[expr.Name], err |-> ""]
           ELSE [v |-> NilV, err |-> "missing value for field"]
      [] expr.k = "param" ->
           IF expr.Name \in DOMAIN evars
           THEN [v |-> evars[expr.Name], err |-> ""]
           ELSE [v |-> NilV, err |-> "missing value for variable"]
      [] expr.k = "lit" -> [v |-> expr.Value, err |-> ""]
      [] OTHER -> [v |-> NilV, err |-> "unsupported value expr"]

\* The six comparison operators on two int64 values.
numericCompare(op, ln, rn) ==
    CASE op = CompareEq  -> ln = rn
      [] op = CompareNeq -> ln # rn
      [] op = CompareLt  -> ln < rn
      [] op = CompareLte -> ln <= rn
      [] op = CompareGt  -> ln > rn
      [] op = CompareGte -> ln >= rn

\* Byte order of the strings the model uses.
StrRank(s) ==
    CASE s = "" -> 0
      [] s = "PRIVATE" -> 1
      [] s = "PROTECTED" -> 2
      [] s = "PUBLIC" -> 3
      [] OTHER -> 4

evalComparison(cond, evars) ==
    LET left  == evalValueExpr(cond.Left, evars)
        right == evalValueExpr(cond.Right, evars)
        op    == cond.Operator
    IN  IF left.err # "" THEN [val |-> FALSE, err |-> left.err]
        ELSE IF right.err # "" THEN [val |-> FALSE, err |-> right.err]
        ELSE IF left.v.t = "nil" \/ right.v.t = "nil" THEN
            CASE op = CompareEq  -> [val |-> left.v.t = right.v.t, err |-> ""]
              [] op = CompareNeq -> [val |-> left.v.t # right.v.t, err |-> ""]
              [] OTHER -> [val |-> FALSE, err |-> "operator not supported for null comparison"]
        ELSE IF left.v.t = "string" THEN
            IF right.v.t # "string"
            THEN [val |-> FALSE, err |-> "comparison type mismatch"]
            ELSE [val |-> numericCompare(op, StrRank(left.v.v), StrRank(right.v.v)), err |-> ""]
        ELSE IF left.v.t = "bool" THEN
            IF right.v.t # "bool"
            THEN [val |-> FALSE, err |-> "comparison type mismatch"]
            ELSE CASE op = CompareEq  -> [val |-> left.v.v = right.v.v, err |-> ""]
                   [] op = CompareNeq -> [val |-> left.v.v # right.v.v, err |-> ""]
                   [] OTHER -> [val |-> FALSE, err |-> "unsupported bool operator"]
        ELSE
            LET ln == toInt64(left.v)
                rn == toInt64(right.v)
            IN  IF ln.err # "" \/ rn.err # ""
                THEN [val |-> FALSE, err |-> "comparison expects numeric values"]
                ELSE [val |-> numericCompare(op, ln.v, rn.v), err |-> ""]

equalsLoose(left, right) ==
    IF left.t = "nil" \/ right.t = "nil" THEN left.t = right.t
    ELSE IF left.t = "string" THEN right.t = "string" /\ left.v = right.v
    ELSE IF left.t = "bool" THEN right.t = "bool" /\ left.v = right.v
    ELSE toInt64(left).err = "" /\ toInt64(right).err = ""
         /\ toInt64(left).v = toInt64(right).v

\* evalIn for a left operand that is not an alias over a JSON list: the values
\* are scanned in order; the first error or the first match ends the scan.
RECURSIVE evalInScan(_, _, _, _)
evalInScan(left, values, i, evars) ==
    IF i > Len(values) THEN [val |-> FALSE, err |-> ""]
    ELSE LET right == evalValueExpr(values[i], evars) IN
         IF right.err # "" THEN [val |-> FALSE, err |-> right.err]
         ELSE LET sl == toAnySlice(right.v)
                  hit == IF sl.ok
                         THEN \E j \in 1..Len(sl.list) : equalsLoose(left, sl.list[j])
                         ELSE equalsLoose(left, right.v)
              IN  IF hit THEN [val |-> TRUE, err |-> ""]
                  ELSE evalInScan(left, values, i + 1, evars)

\* The characters of the strings whose spelling matters (tags); any other
\* string of the model is one symbol.
Chars(s) ==
    CASE s = "foo"     -> <<"f", "o", "o">>
      [] s = "foo/bar" -> <<"f", "o", "o", "/", "b", "a", "r">>
      [] s = "foobar"  -> <<"f", "o", "o", "b", "a", "r">>
      [] s = "fo_"     -> <<"f", "o", "_">>
      [] OTHER -> <<s>>

\* strings.HasPrefix(s, prefix), on characters.
HasPrefix(s, prefix) ==
    Len(prefix) <= Len(s) /\ SubSeq(s, 1, Len(prefix)) = prefix

\* evalIn, alias over a JSON list: the values flattened, up to the first error.
RECURSIVE evalInFlatten(_, _, _, _)
evalInFlatten(values, i, rightFlat, evars) ==
    IF i > Len(values) THEN [flat |-> rightFlat, err |-> ""]
    ELSE With(evalValueExpr(values[i], evars), LAMBDA right :
         IF right.err # "" THEN [flat |-> rightFlat, err |-> right.err]
         ELSE With(toAnySlice(right.v), LAMBDA expanded :
              evalInFlatten(values, i + 1,
                  IF expanded.ok THEN rightFlat \o expanded.list
                  ELSE Append(rightFlat, right.v), evars)))

\* evalIn, alias over a JSON list: candidate j against list element i.
RECURSIVE evalAliasInScan(_, _, _, _, _)
evalAliasInScan(list, rightFlat, i, j, hierarchical) ==
    IF i > Len(list) THEN [val |-> FALSE, err |-> ""]
    ELSE IF list[i].t # "string"
    THEN [val |-> FALSE, err |-> "field expects string elements"]
    ELSE IF j > Len(rightFlat) THEN evalAliasInScan(list, rightFlat, i + 1, 1, hierarchical)
    ELSE IF rightFlat[j].t # "string"
    THEN [val |-> FALSE, err |-> "alias expects string values"]
    ELSE IF list[i].v = rightFlat[j].v THEN [val |-> TRUE, err |-> ""]
    ELSE IF hierarchical /\ HasPrefix(Chars(list[i].v), Chars(rightFlat[j].v) \o <<"/">>)
    THEN [val |-> TRUE, err |-> ""]
    ELSE evalAliasInScan(list, rightFlat, i, j + 1, hierarchical)

\* evalIn, alias over a JSON list (resolved is the list field).
evalAliasIn(cond, resolved, evars) ==
    IF resolved.Name \notin DOMAIN evars THEN [val |-> FALSE, err |-> ""]
    ELSE IF evars[resolved.Name].t = "nil" THEN [val |-> FALSE, err |-> ""]
    ELSE IF ~toAnySlice(evars[resolved.Name]).ok
    THEN [val |-> FALSE, err |-> "field expects a slice/array value"]
    ELSE With(evalInFlatten(cond.Values, 1, <<>>, evars), LAMBDA right :
         IF right.err # "" THEN [val |-> FALSE, err |-> right.err]
         ELSE evalAliasInScan(toAnySlice(evars[resolved.Name]).list, right.flat, 1, 1,
                              cond.Left.Name = "tag"))

\* The left operand of an in is a virtual alias whose target is a JSON list.
IsListAlias(left) ==
    /\ left.k = "field"
    /\ SchemaField(left.Name).ok
    /\ SchemaField(left.Name).field.Kind = FieldKindVirtualAlias
    /\ ResolveAlias(left.Name).ok
    /\ ResolveAlias(left.Name).field.Kind = FieldKindJSONList

evalIn(cond, evars) ==
    IF cond.Left.k = "field" /\ SchemaField(cond.Left.Name).ok
       /\ SchemaField(cond.Left.Name).field.Kind = FieldKindVirtualAlias
       /\ ~ResolveAlias(cond.Left.Name).ok
    THEN [val |-> FALSE, err |-> "invalid alias"]
    ELSE IF IsListAlias(cond.Left)
    THEN evalAliasIn(cond, ResolveAlias(cond.Left.Name).field, evars)
    ELSE LET left == evalValueExpr(cond.Left, evars) IN
         IF left.err # "" THEN [val |-> FALSE, err |-> left.err]
         ELSE evalInScan(left.v, cond.Values, 1, evars)

\* The evaluator with both children of a Logical node evaluated before the
\* operator is looked at.
RECURSIVE EvaluateBothSides(_, _)
EvaluateBothSides(cond, evars) ==
    CASE cond.k = "logical" ->
           LET left  == EvaluateBothSides(cond.Left, evars)
               right == EvaluateBothSides(cond.Right, evars)
           IN  IF left.err # "" THEN [val |-> FALSE, err |-> left.err]
               ELSE IF right.err # "" THEN [val |-> FALSE, err |-> right.err]
               ELSE IF cond.Operator = LogicalAnd
                    THEN [val |-> left.val /\ right.val, err |-> ""]
                    ELSE [val |-> left.val \/ right.val, err |-> ""]
      [] cond.k = "not" ->
           LET val == EvaluateBothSides(cond.Expr, evars) IN
           IF val.err # "" THEN [val |-> FALSE, err |-> val.err]
           ELSE [val |-> ~val.val, err |-> ""]
      [] cond.k = "cmp" -> evalComparison(cond, evars)
      [] cond.k = "in" -> evalIn(cond, evars)
      [] cond.k = "const" -> [val |-> cond.Value, err |-> ""]
      [] OTHER -> [val |-> FALSE, err |-> "unsupported condition type"]

RECURSIVE EvaluateCondition(_, _)
EvaluateCondition(cond, evars) ==
    CASE cond.k = "logical" ->
           LET left == EvaluateCondition(cond.Left, evars) IN
           IF left.err # "" THEN [val |-> FALSE, err |-> left.err]
           ELSE IF cond.Operator = LogicalAnd THEN
                IF ~left.val THEN [val |-> FALSE, err |-> ""]
                ELSE EvaluateCondition(cond.Right, evars)
           ELSE IF cond.Operator = LogicalOr THEN
                IF left.val THEN [val |-> TRUE, err |-> ""]
                ELSE EvaluateCondition(cond.Right, evars)
           ELSE [val |-> FALSE, err |-> "unsupported logical operator"]
      [] cond.k = "not" ->
           LET val == EvaluateCondition(cond.Expr, evars) IN
           IF val.err # "" THEN [val |-> FALSE, err |-> val.err]
           ELSE [val |-> ~val.val, err |-> ""]
      [] cond.k = "cmp" -> evalComparison(cond, evars)
      [] cond.k = "in" -> evalIn(cond, evars)
      [] cond.k = "const" -> [val |-> cond.Value, err |-> ""]
      [] OTHER -> [val |-> FALSE, err |-> "unsupported condition type"]

-----------------------------------------------------------------------------
(* Renderer (filter/render.go) *)

\* SQL text, as the tree of the format strings that build it.
EmptySQL          == [k |-> "empty"]                             \* ""
FalseSQL          == [k |-> "false"]                             \* "1 = 0"
CmpSQL(col, op, ph)  == [k |-> "cmp", col |-> col, op |-> op, ph |-> ph]   \* "%s %s %s"
IsNullSQL(col, neg)  == [k |-> "isnull", col |-> col, neg |-> neg]  \* "%s IS [NOT] NULL"
InSQL(col, phs)      == [k |-> "in", col |-> col, phs |-> phs]      \* "%s IN (%s)"
JoinSQL(op, parts)   == [k |-> "join", op |-> op, parts |-> parts]  \* "(%s)" of a Join
NotSQL(arg)          == [k |-> "not", arg |-> arg]                  \* "NOT (%s)"
ParenSQL(arg)        == [k |-> "paren", arg |-> arg]                \* "(%s)"
ColSQL(format, col)  == [k |-> "col", format |-> format, col |-> col]  \* format of a column
FormatSQL(format, col, ph) ==                           \* format of a column and a placeholder
    [k |-> "fmt", format |-> format, col |-> col, ph |-> ph]
TemplateSQL(parts)   == [k |-> "template", parts |-> parts]         \* an sql() template, filled in

\* renderResult
TrivialResult == [sql |-> EmptySQL, trivial |-> TRUE, unsatisfiable |-> FALSE]
UnsatResult   == [sql |-> FalseSQL, trivial |-> FALSE, unsatisfiable |-> TRUE]
SQLResult(sql) == [sql |-> sql, trivial |-> FALSE, unsatisfiable |-> FALSE]
ZeroResult    == [sql |-> EmptySQL, trivial |-> FALSE, unsatisfiable |-> FALSE]

\* What a render step returns: the renderResult, the error ("" for nil) and
\* the renderer's mutable fields (placeholderCounter, args) after the step.
Ok(res, r)   == [res |-> res, err |-> "", r |-> r]
Fail(err, r) == [res |-> ZeroResult, err |-> err, r |-> r]

\* newRenderer: counter 0, args nil.
newRenderer == [placeholderCounter |-> 0, args |-> <<>>]

\* RenderOptions and bindings of one render call.
RenderEnv(dialect, offset, bindings) ==
    [dialect |-> dialect, placeholderOffset |-> offset, bindings |-> bindings]

\* addArg with the bug of numbering placeholders without the offset.
addArgNoOffset(r, env, value) ==
    LET c == r.placeholderCounter + 1 IN
    [r  |-> [placeholderCounter |-> c, args |-> Append(r.args, value)],
     ph |-> IF env.dialect = DialectPostgres
            THEN [txt |-> "$", n |-> c, alloc |-> c]
            ELSE [txt |-> "?", n |-> 0, alloc |-> c]]

\* addArg: the placeholder is "$N" (N = offset + counter) for postgres and
\* "?" otherwise.  alloc records which allocation the placeholder stands for;
\* it is not part of the SQL text (see SQLText).
addArg(r, env, value) ==
    LET c == r.placeholderCounter + 1 IN
    [r  |-> [placeholderCounter |-> c, args |-> Append(r.args, value)],
     ph |-> IF env.dialect = DialectPostgres
            THEN [txt |-> "$", n |-> env.placeholderOffset + c, alloc |-> c]
            ELSE [txt |-> "?", n |-> 0, alloc |-> c]]

addBoolArg(r, env, value) ==
    IF env.dialect = DialectSQLite
    THEN addArg(r, env, IntV(IF value.v THEN 1 ELSE 0))
    ELSE addArg(r, env, value)

resolveValue(expr, env) ==
    CASE expr.k = "lit" -> [v |-> expr.Value, err |-> ""]
      [] expr.k = "param" ->
           IF env.bindings.isNil THEN [v |-> NilV, err |-> "missing bindings"]
           ELSE IF expr.Name \notin DOMAIN env.bindings.m
                THEN [v |-> NilV, err |-> "missing binding value"]
                ELSE [v |-> env.bindings.m[expr.Name], err |-> ""]
      [] OTHER -> [v |-> NilV, err |-> "expression must be a literal or param"]

\* The operator kept as it is when the sides change.
keepComparisonOperator(op) == op

invertComparisonOperator(op) ==
    CASE op = CompareEq  -> CompareEq
      [] op = CompareNeq -> CompareNeq
      [] op = CompareLt  -> CompareGt
      [] op = CompareLte -> CompareGte
      [] op = CompareGt  -> CompareLt
      [] op = CompareGte -> CompareLte

\* The variable map the renderer folds column-free conditions with.
bindingVars(env) == IF env.bindings.isNil THEN <<>> ELSE env.bindings.m

renderFieldComparison(field, op, right, r, env) ==
    With(resolveValue(right, env), LAMBDA value :
    With(columnExpr(field, env.dialect), LAMBDA col :
    IF value.err # "" THEN Fail(value.err, r)
    ELSE IF value.v.t = "nil" THEN
        CASE op = CompareEq  -> Ok(SQLResult(IsNullSQL(col, FALSE)), r)
          [] op = CompareNeq -> Ok(SQLResult(IsNullSQL(col, TRUE)), r)
          [] OTHER -> Fail("operator not supported for null comparison", r)
    ELSE CASE field.Type = FieldTypeString ->
                IF value.v.t # "string" THEN Fail("field expects string value", r)
                ELSE With(addArg(r, env, value.v), LAMBDA a :
                     Ok(SQLResult(CmpSQL(col, op, a.ph)), a.r))
           [] field.Type = FieldTypeInt ->
                With(toInt64(value.v), LAMBDA num :
                IF num.err # "" THEN Fail("field expects integer value", r)
                ELSE With(addArg(r, env, IntV(num.v)), LAMBDA a :
                     Ok(SQLResult(CmpSQL(col, op, a.ph)), a.r)))
           [] field.Type = FieldTypeBool ->
                IF value.v.t # "bool" THEN Fail("field expects bool value", r)
                ELSE With(addBoolArg(r, env, value.v), LAMBDA a :
                     Ok(SQLResult(CmpSQL(col, op, a.ph)), a.r))
           [] OTHER -> Fail("unsupported field type", r)))

\* renderFieldPredicate: a bare bool field (the schema has no json_bool field).
renderFieldPredicate(cond, r, env) ==
    With(SchemaField(cond.Field), LAMBDA f :
    IF ~f.ok THEN Fail("unknown field", r) ELSE
    With(IF f.field.Kind = FieldKindVirtualAlias THEN ResolveAlias(cond.Field) ELSE f,
         LAMBDA resolved :
    IF ~resolved.ok THEN Fail("invalid alias", r)
    ELSE IF resolved.field.Type # FieldTypeBool
    THEN Fail("field cannot be used as a predicate", r)
    ELSE IF env.dialect = DialectSQLite
    THEN Ok(SQLResult(ColSQL("%s != 0", columnExpr(resolved.field, env.dialect))), r)
    ELSE Ok(SQLResult(ColSQL("%s IS TRUE", columnExpr(resolved.field, env.dialect))), r)))

\* renderFunctionComparison: size(list field) compared with an integer.
renderFunctionComparison(fn, op, right, r, env) ==
    IF fn.Name # "size" THEN Fail("unsupported function in comparison", r)
    ELSE IF Len(fn.Args) # 1 THEN Fail("size() expects one argument", r)
    ELSE IF fn.Args[1].k # "field" THEN Fail("size() argument must be a field", r)
    ELSE
    With(SchemaField(fn.Args[1].Name), LAMBDA f :
    IF ~f.ok THEN Fail("unknown field", r) ELSE
    With(IF f.field.Kind = FieldKindVirtualAlias THEN ResolveAlias(fn.Args[1].Name) ELSE f,
         LAMBDA resolved :
    IF ~resolved.ok THEN Fail("invalid alias", r)
    ELSE IF resolved.field.Kind # FieldKindJSONList
    THEN Fail("size() only supports json list fields", r)
    ELSE
    With(resolveValue(right, env), LAMBDA raw :
    IF raw.err # "" THEN Fail(raw.err, r) ELSE
    With(toInt64(raw.v), LAMBDA num :
    IF num.err # "" THEN Fail("size() comparison expects integer value", r) ELSE
    With(addArg(r, env, IntV(num.v)), LAMBDA a :
    Ok(SQLResult(CmpSQL(jsonArrayLengthExpr(env.dialect, resolved.field), op, a.ph)),
       a.r))))))

RECURSIVE renderComparison(_, _, _)
renderComparison(cond, r, env) ==
    IF cond.Left.k = "field" THEN
        With(SchemaField(cond.Left.Name), LAMBDA f :
        IF ~f.ok THEN Fail("unknown field", r) ELSE
        With(IF f.field.Kind = FieldKindVirtualAlias
             THEN ResolveAlias(cond.Left.Name) ELSE f, LAMBDA resolved :
        IF ~resolved.ok THEN Fail("invalid alias", r)
        ELSE IF resolved.field.Kind = FieldKindJSONList
        THEN Fail("field does not support comparison", r)
        ELSE renderFieldComparison(resolved.field, cond.Operator, cond.Right, r, env)))
    ELSE IF cond.Left.k = "fn" THEN
        renderFunctionComparison(cond.Left, cond.Operator, cond.Right, r, env)
    ELSE IF cond.Right.k = "field" \/ cond.Right.k = "fn" THEN
        \* Allow symmetry: `current_user_id == creator_id`, `0 < size(tags)`.
        renderComparison(ComparisonCondition(cond.Right,
                             invertComparisonOperator(cond.Operator), cond.Left), r, env)
    ELSE
        \* No column refs: fold to true/false using bindings only.
        With(evalComparison(cond, bindingVars(env)), LAMBDA ok :
        IF ok.err # "" THEN Fail(ok.err, r)
        ELSE IF ok.val THEN Ok(TrivialResult, r) ELSE Ok(UnsatResult, r))

\* renderInCondition, first loop: resolve and flatten the values.
RECURSIVE flattenInValues(_, _, _, _)
flattenInValues(values, i, flat, env) ==
    IF i > Len(values) THEN [flat |-> flat, err |-> ""]
    ELSE With(resolveValue(values[i], env), LAMBDA raw :
         IF raw.err # "" THEN [flat |-> flat, err |-> raw.err]
         ELSE With(toAnySlice(raw.v), LAMBDA sl :
              flattenInValues(values, i + 1,
                  IF sl.ok THEN flat \o sl.list ELSE Append(flat, raw.v), env)))

\* renderInCondition, second loop: one typed placeholder per flattened value.
RECURSIVE placeInValues(_, _, _, _, _, _)
placeInValues(field, flat, i, phs, r, env) ==
    IF i > Len(flat) THEN [phs |-> phs, err |-> "", r |-> r]
    ELSE IF flat[i].t = "nil" THEN [phs |-> phs, err |-> "IN() with null values", r |-> r]
    ELSE CASE field.Type = FieldTypeString ->
                IF flat[i].t # "string"
                THEN [phs |-> phs, err |-> "field expects string values", r |-> r]
                ELSE With(addArg(r, env, flat[i]), LAMBDA a :
                     placeInValues(field, flat, i + 1, Append(phs, a.ph), a.r, env))
           [] field.Type = FieldTypeInt ->
                With(toInt64(flat[i]), LAMBDA num :
                IF num.err # ""
                THEN [phs |-> phs, err |-> "field expects integer values", r |-> r]
                ELSE With(addArg(r, env, IntV(num.v)), LAMBDA a :
                     placeInValues(field, flat, i + 1, Append(phs, a.ph), a.r, env)))
           [] OTHER -> [phs |-> phs, err |-> "field does not support IN()", r |-> r]

\* renderAliasInList: the test that a JSON array holds the element exactly.
jsonExactMatch(arrayExpr, ph, env) ==
    FormatSQL(CASE env.dialect = DialectSQLite -> "%s LIKE %s"
                [] env.dialect = DialectMySQL -> "JSON_CONTAINS(%s, %s)"
                [] OTHER -> "%s @> jsonb_build_array(%s::json)",
              arrayExpr, ph)

\* The argument of that test: a LIKE pattern for sqlite, the JSON string otherwise.
jsonExactArg(s, env) ==
    IF env.dialect = DialectSQLite THEN PatternV("%\"%s\"%", s) ELSE PatternV("\"%s\"", s)

\* renderAliasInList, second loop: one condition per flattened value; the
\* alias named tag also matches the elements that begin with "value/".
RECURSIVE aliasInConditions(_, _, _, _, _, _, _)
aliasInConditions(aliasName, field, flat, i, conditions, r, env) ==
    IF i > Len(flat) THEN [conditions |-> conditions, err |-> "", r |-> r]
    ELSE IF flat[i].t = "nil"
    THEN [conditions |-> conditions, err |-> "alias does not support IN() with null values",
          r |-> r]
    ELSE IF flat[i].t # "string"
    THEN [conditions |-> conditions, err |-> "alias expects string values", r |-> r]
    ELSE IF env.dialect \notin {DialectSQLite, DialectMySQL, DialectPostgres}
    THEN [conditions |-> conditions, err |-> "unsupported dialect", r |-> r]
    ELSE
    With(jsonArrayExpr(env.dialect, field), LAMBDA arrayExpr :
    With(addArg(r, env, jsonExactArg(flat[i].v, env)), LAMBDA ea :
    IF aliasName = "tag"
    THEN With(addArg(ea.r, env, PatternV("%\"%s/%", flat[i].v)), LAMBDA pa :
         aliasInConditions(aliasName, field, flat, i + 1,
             Append(conditions,
                    JoinSQL("OR", <<jsonExactMatch(arrayExpr, ea.ph, env),
                                    FormatSQL(IF env.dialect = DialectPostgres
                                              THEN "(%s)::text LIKE %s" ELSE "%s LIKE %s",
                                              arrayExpr, pa.ph)>>)),
             pa.r, env))
    ELSE aliasInConditions(aliasName, field, flat, i + 1,
             Append(conditions, jsonExactMatch(arrayExpr, ea.ph, env)), ea.r, env)))

renderAliasInList(aliasName, field, values, r, env) ==
    With(flattenInValues(values, 1, <<>>, env), LAMBDA fl :
    IF fl.err # "" THEN Fail(fl.err, r)
    ELSE IF Len(fl.flat) = 0 THEN Ok(UnsatResult, r)
    ELSE With(aliasInConditions(aliasName, field, fl.flat, 1, <<>>, r, env), LAMBDA c :
         IF c.err # "" THEN Fail(c.err, c.r)
         ELSE IF Len(c.conditions) = 1 THEN Ok(SQLResult(c.conditions[1]), c.r)
         ELSE Ok(SQLResult(JoinSQL("OR", c.conditions)), c.r)))

\* renderInCondition on a scalar field: flatten the values, one placeholder each.
renderScalarIn(field, values, r, env) ==
    With(flattenInValues(values, 1, <<>>, env), LAMBDA fl :
    IF fl.err # "" THEN Fail(fl.err, r)
    ELSE IF Len(fl.flat) = 0 THEN Ok(UnsatResult, r)
    ELSE With(placeInValues(field, fl.flat, 1, <<>>, r, env), LAMBDA p :
         IF p.err # "" THEN Fail(p.err, p.r)
         ELSE Ok(SQLResult(InSQL(columnExpr(field, env.dialect), p.phs)), p.r)))

renderInCondition(cond, r, env) ==
    IF cond.Left.k # "field" THEN
        With(evalIn(cond, bindingVars(env)), LAMBDA ok :
        IF ok.err # "" THEN Fail(ok.err, r)
        ELSE IF ok.val THEN Ok(TrivialResult, r) ELSE Ok(UnsatResult, r))
    ELSE
        With(SchemaField(cond.Left.Name), LAMBDA f :
        IF ~f.ok THEN Fail("unknown field", r)
        ELSE IF f.field.Kind = FieldKindVirtualAlias THEN
             With(ResolveAlias(cond.Left.Name), LAMBDA resolved :
             IF ~resolved.ok THEN Fail("invalid alias", r)
             ELSE IF resolved.field.Kind = FieldKindJSONList
             THEN renderAliasInList(cond.Left.Name, resolved.field, cond.Values, r, env)
             ELSE Fail("alias does not support IN()", r))
        ELSE IF f.field.Kind = FieldKindJSONList
        THEN Fail("field does not support IN(); use element-in", r)
        ELSE renderScalarIn(f.field, cond.Values, r, env))

renderElementInCondition(cond, r, env) ==
    With(SchemaField(cond.Field), LAMBDA f :
    IF ~f.ok THEN Fail("unknown field", r) ELSE
    With(IF f.field.Kind = FieldKindVirtualAlias THEN ResolveAlias(cond.Field) ELSE f,
         LAMBDA resolved :
    IF ~resolved.ok THEN Fail("invalid alias", r)
    ELSE IF resolved.field.Kind # FieldKindJSONList
    THEN Fail("field is not a JSON list", r)
    ELSE
    With(resolveValue(cond.Element, env), LAMBDA raw :
    IF raw.err # "" THEN Fail(raw.err, r)
    ELSE IF raw.v.t # "string" THEN Fail("list membership requires string value", r)
    ELSE IF env.dialect \notin {DialectSQLite, DialectMySQL, DialectPostgres}
    THEN Fail("unsupported dialect", r)
    ELSE With(addArg(r, env, jsonExactArg(raw.v.v, env)), LAMBDA a :
         Ok(SQLResult(jsonExactMatch(jsonArrayExpr(env.dialect, resolved.field), a.ph, env)),
            a.r)))))

\* renderer.resolveString
resolveString(expr, env) ==
    With(resolveValue(expr, env), LAMBDA raw :
    IF raw.err # "" THEN [s |-> "", err |-> raw.err]
    ELSE IF raw.v.t # "string" THEN [s |-> "", err |-> "expected string value"]
    ELSE [s |-> raw.v.v, err |-> ""])

\* buildJSONArrayLike: the LIKE on the JSON text and the renderer after the
\* arg was added; the empty string, and no arg, for any other dialect.
buildJSONArrayLike(arrayExpr, pattern, r, env) ==
    IF env.dialect \in {DialectSQLite, DialectMySQL, DialectPostgres}
    THEN With(addArg(r, env, pattern), LAMBDA a :
         [sql |-> FormatSQL(IF env.dialect = DialectPostgres
                            THEN "(%s)::text LIKE %s" ELSE "%s LIKE %s", arrayExpr, a.ph),
          r |-> a.r])
    ELSE [sql |-> EmptySQL, r |-> r]

\* wrapWithNullCheck: "(condition AND nullCheck)"; the condition alone for any
\* other dialect.
wrapWithNullCheck(arrayExpr, condition, env) ==
    CASE env.dialect = DialectSQLite ->
           JoinSQL("AND", <<condition, ColSQL("%s IS NOT NULL AND %s != '[]'", arrayExpr)>>)
      [] env.dialect = DialectMySQL ->
           JoinSQL("AND", <<condition,
                            ColSQL("%s IS NOT NULL AND JSON_LENGTH(%s) > 0", arrayExpr)>>)
      [] env.dialect = DialectPostgres ->
           JoinSQL("AND", <<condition,
                            ColSQL("%s IS NOT NULL AND jsonb_array_length(%s) > 0", arrayExpr)>>)
      [] OTHER -> condition

renderJSONArrayStartsWith(field, prefix, r, env) ==
    With(jsonArrayExpr(env.dialect, field), LAMBDA arrayExpr :
    CASE env.dialect \in {DialectSQLite, DialectMySQL} ->
           With(buildJSONArrayLike(arrayExpr, PatternV("%\"%s\"%", prefix), r, env),
                LAMBDA exactMatch :
           With(buildJSONArrayLike(arrayExpr, PatternV("%\"%s%", prefix), exactMatch.r, env),
                LAMBDA prefixMatch :
           Ok(SQLResult(wrapWithNullCheck(arrayExpr,
                  JoinSQL("OR", <<exactMatch.sql, prefixMatch.sql>>), env)), prefixMatch.r)))
      [] env.dialect = DialectPostgres ->
           With(addArg(r, env, PatternV("\"%s\"", prefix)), LAMBDA ea :
           With(addArg(ea.r, env, PatternV("%\"%s%", prefix)), LAMBDA pa :
           Ok(SQLResult(wrapWithNullCheck(arrayExpr,
                  JoinSQL("OR", <<FormatSQL("%s @> jsonb_build_array(%s::json)",
                                            arrayExpr, ea.ph),
                                  FormatSQL("(%s)::text LIKE %s", arrayExpr, pa.ph)>>),
                  env)), pa.r)))
      [] OTHER -> Fail("unsupported dialect", r))

\* renderJSONArrayEndsWith and renderJSONArrayContains: one LIKE on the JSON
\* text, wrapped with the null check.
renderJSONArrayLike(field, pattern, r, env) ==
    With(jsonArrayExpr(env.dialect, field), LAMBDA arrayExpr :
    With(buildJSONArrayLike(arrayExpr, pattern, r, env), LAMBDA likeExpr :
    Ok(SQLResult(wrapWithNullCheck(arrayExpr, likeExpr.sql, env)), likeExpr.r)))

renderJSONArrayEndsWith(field, suffix, r, env) ==
    renderJSONArrayLike(field, PatternV("%%s\"%", suffix), r, env)

renderJSONArrayContains(field, substring, r, env) ==
    renderJSONArrayLike(field, PatternV("%%s%", substring), r, env)

\* renderListComprehension once the field is resolved to a JSON list.
renderComprehensionPredicate(field, predicate, r, env) ==
    CASE predicate.k = "startsWith" ->
           With(resolveString(predicate.Prefix, env), LAMBDA prefix :
           IF prefix.err # "" THEN Fail(prefix.err, r)
           ELSE renderJSONArrayStartsWith(field, prefix.s, r, env))
      [] predicate.k = "endsWith" ->
           With(resolveString(predicate.Suffix, env), LAMBDA suffix :
           IF suffix.err # "" THEN Fail(suffix.err, r)
           ELSE renderJSONArrayEndsWith(field, suffix.s, r, env))
      [] predicate.k = "contains" ->
           With(resolveString(predicate.Substring, env), LAMBDA substring :
           IF substring.err # "" THEN Fail(substring.err, r)
           ELSE renderJSONArrayContains(field, substring.s, r, env))
      [] OTHER -> Fail("unsupported predicate type in comprehension", r)

renderListComprehension(cond, r, env) ==
    With(SchemaField(cond.Field), LAMBDA f :
    IF ~f.ok THEN Fail("unknown field", r) ELSE
    With(IF f.field.Kind = FieldKindVirtualAlias THEN ResolveAlias(cond.Field) ELSE f,
         LAMBDA resolved :
    IF ~resolved.ok THEN Fail("invalid alias", r)
    ELSE IF resolved.field.Kind # FieldKindJSONList THEN Fail("field is not a JSON list", r)
    ELSE renderComprehensionPredicate(resolved.field, cond.Predicate, r, env)))

\* renderContainsCondition, renderStartsWithCondition and
\* renderEndsWithCondition differ in the name of the method and in the LIKE
\* pattern ("%%%s%%", "%s%%", "%%%s"); the field is looked up and used as it
\* is declared.
renderStringMatch(cond, pattern, r, env) ==
    With(SchemaField(cond.Field), LAMBDA f :
    IF ~f.ok THEN Fail("unknown field", r)
    ELSE IF f.field.Type # FieldTypeString THEN Fail("field does not support the method", r)
    ELSE
    With(resolveValue(cond.Value, env), LAMBDA raw :
    IF raw.err # "" THEN Fail(raw.err, r)
    ELSE IF raw.v.t # "string" THEN Fail("method expects string value", r)
    ELSE IF raw.v.v = "" THEN Ok(TrivialResult, r)
    ELSE With(addArg(r, env, PatternV(pattern, raw.v.v)), LAMBDA a :
         Ok(SQLResult(FormatSQL(IF env.dialect = DialectPostgres
                                THEN "%s ILIKE %s" ELSE "%s LIKE %s",
                                columnExpr(f.field, env.dialect), a.ph)), a.r))))

renderContainsCondition(cond, r, env)   == renderStringMatch(cond, "%%s%", r, env)
renderStartsWithCondition(cond, r, env) == renderStringMatch(cond, "%s%", r, env)
renderEndsWithCondition(cond, r, env)   == renderStringMatch(cond, "%%s", r, env)

\* interpolateSQLColumns, one {{name}}: the column expression of the field
\* (of its target for an alias).
interpolateColumn(name, env) ==
    With(SchemaField(name), LAMBDA f :
    IF ~f.ok THEN [sql |-> <<>>, err |-> "unknown field in SQL template placeholder"] ELSE
    With(IF f.field.Kind = FieldKindVirtualAlias THEN ResolveAlias(name) ELSE f,
         LAMBDA resolved :
    IF ~resolved.ok
    THEN [sql |-> <<>>, err |-> "invalid alias in SQL template placeholder"]
    ELSE IF resolved.field.Kind \notin {"", FieldKindScalar, "bool_column"}
    THEN [sql |-> <<>>, err |-> "field not supported in SQL template placeholders"]
    ELSE [sql |-> <<[tok |-> "col", col |-> columnExpr(resolved.field, env.dialect)]>>,
          err |-> ""]))

\* interpolateSQLColumns: the loop over the template from piece i on.
RECURSIVE interpolateSQLColumns(_, _, _, _)
interpolateSQLColumns(tpl, i, out, env) ==
    IF i > Len(tpl) THEN [sql |-> out, err |-> ""]
    ELSE IF tpl[i].tok = "open"
    THEN [sql |-> <<>>, err |-> "unterminated {{...}} placeholder in SQL template"]
    ELSE IF tpl[i].tok = "field"
    THEN With(interpolateColumn(tpl[i].name, env), LAMBDA col :
         IF col.err # "" THEN col
         ELSE interpolateSQLColumns(tpl, i + 1, out \o col.sql, env))
    ELSE interpolateSQLColumns(tpl, i + 1, Append(out, tpl[i]), env)

\* The loop of replaceSQLArgPlaceholders from piece i on, argIdx args used.
RECURSIVE replaceArgSlots(_, _, _, _, _)
replaceArgSlots(tpl, i, placeholders, argIdx, out) ==
    IF i > Len(tpl)
    THEN IF argIdx # Len(placeholders)
         THEN [sql |-> <<>>, err |-> "template has fewer '?' than args"]
         ELSE [sql |-> out, err |-> ""]
    ELSE IF tpl[i].tok = "arg"
         THEN IF argIdx >= Len(placeholders)
              THEN [sql |-> <<>>, err |-> "template has more '?' than args"]
              ELSE replaceArgSlots(tpl, i + 1, placeholders, argIdx + 1,
                       Append(out, [tok |-> "ph", ph |-> placeholders[argIdx + 1]]))
         ELSE replaceArgSlots(tpl, i + 1, placeholders, argIdx, Append(out, tpl[i]))

\* The same loop without the final comparison of argIdx with the number of args.
RECURSIVE replaceArgSlotsUnchecked(_, _, _, _, _)
replaceArgSlotsUnchecked(tpl, i, placeholders, argIdx, out) ==
    IF i > Len(tpl) THEN [sql |-> out, err |-> ""]
    ELSE IF tpl[i].tok = "arg"
         THEN IF argIdx >= Len(placeholders)
              THEN [sql |-> <<>>, err |-> "template has more '?' than args"]
              ELSE replaceArgSlotsUnchecked(tpl, i + 1, placeholders, argIdx + 1,
                       Append(out, [tok |-> "ph", ph |-> placeholders[argIdx + 1]]))
         ELSE replaceArgSlotsUnchecked(tpl, i + 1, placeholders, argIdx, Append(out, tpl[i]))

\* replaceSQLArgPlaceholders with the bug of accepting a template that has
\* fewer ? than args.
replaceSQLArgPlaceholdersFewer(tpl, placeholders) ==
    IF Len(placeholders) = 0
    THEN IF \E i \in 1..Len(tpl) : tpl[i].tok = "arg"
         THEN [sql |-> <<>>, err |-> "template contains '?' but no args were provided"]
         ELSE [sql |-> tpl, err |-> ""]
    ELSE replaceArgSlotsUnchecked(tpl, 1, placeholders, 0, <<>>)

replaceSQLArgPlaceholders(tpl, placeholders) ==
    IF Len(placeholders) = 0
    THEN IF \E i \in 1..Len(tpl) : tpl[i].tok = "arg"
         THEN [sql |-> <<>>, err |-> "template contains '?' but no args were provided"]
         ELSE [sql |-> tpl, err |-> ""]
    ELSE replaceArgSlots(tpl, 1, placeholders, 0, <<>>)

\* strings.TrimSpace(s) == "" on a template
IsBlank(tpl) == \A i \in 1..Len(tpl) : tpl[i].tok = "space"

\* renderSQLPredicateCondition, the loop over the args: each is resolved and
\* given a placeholder (a bool through addBoolArg).
RECURSIVE predicateArgs(_, _, _, _, _)
predicateArgs(args, i, placeholders, r, env) ==
    IF i > Len(args) THEN [placeholders |-> placeholders, err |-> "", r |-> r]
    ELSE With(resolveValue(args[i], env), LAMBDA raw :
         IF raw.err # "" THEN [placeholders |-> placeholders, err |-> raw.err, r |-> r]
         ELSE With(IF raw.v.t = "bool" THEN addBoolArg(r, env, raw.v)
                   ELSE addArg(r, env, raw.v), LAMBDA a :
              predicateArgs(args, i + 1, Append(placeholders, a.ph), a.r, env)))

renderSQLPredicateCondition(cond, r, env) ==
    With(template(cond.SQL, env.dialect), LAMBDA tpl :
    IF IsBlank(tpl) THEN Fail("missing SQL template for predicate", r) ELSE
    With(interpolateSQLColumns(tpl, 1, <<>>, env), LAMBDA cols :
    IF cols.err # "" THEN Fail(cols.err, r) ELSE
    With(predicateArgs(cond.Args, 1, <<>>, r, env), LAMBDA pa :
    IF pa.err # "" THEN Fail(pa.err, pa.r) ELSE
    With(replaceSQLArgPlaceholders(cols.sql, pa.placeholders), LAMBDA sql :
    IF sql.err # "" THEN Fail(sql.err, pa.r)
    ELSE IF IsBlank(sql.sql) THEN Ok(TrivialResult, pa.r)
    ELSE Ok(SQLResult(TemplateSQL(sql.sql)), pa.r)))))

RECURSIVE flattenLogicalConditions(_, _)
flattenLogicalConditions(cond, operator) ==
    IF cond.k = "logical" /\ cond.Operator = operator
    THEN flattenLogicalConditions(cond.Left, operator)
           \o flattenLogicalConditions(cond.Right, operator)
    ELSE <<cond>>

\* The loop that builds `filtered`: the results, in order, without those
\* whose flag `drop` (trivial or unsatisfiable) is set.
RECURSIVE filterResults(_, _)
filterResults(conds, drop) ==
    IF conds = <<>> THEN <<>>
    ELSE IF Head(conds)[drop] THEN filterResults(Tail(conds), drop)
         ELSE <<Head(conds)>> \o filterResults(Tail(conds), drop)

\* combineAndAll with the bug of keeping trivial children in the join.
combineAndAllKeepTrivial(conds) ==
    IF \E i \in 1..Len(conds) : conds[i].unsatisfiable THEN UnsatResult
    ELSE IF Len(conds) = 0 THEN TrivialResult
         ELSE IF Len(conds) = 1 THEN conds[1]
         ELSE SQLResult(JoinSQL("AND", [i \in 1..Len(conds) |-> conds[i].sql]))

combineAndAll(conds) ==
    IF \E i \in 1..Len(conds) : conds[i].unsatisfiable THEN UnsatResult
    ELSE LET filtered == filterResults(conds, "trivial")
         IN  IF Len(filtered) = 0 THEN TrivialResult
             ELSE IF Len(filtered) = 1 THEN filtered[1]
             ELSE SQLResult(JoinSQL("AND", [i \in 1..Len(filtered) |-> filtered[i].sql]))

\* combineOrAll with the bug of ignoring trivial children.
combineOrAllNoTrivial(conds) ==
    LET filtered == filterResults(filterResults(conds, "unsatisfiable"), "trivial")
    IN  IF Len(filtered) = 0 THEN UnsatResult
        ELSE IF Len(filtered) = 1 THEN filtered[1]
        ELSE SQLResult(JoinSQL("OR", [i \in 1..Len(filtered) |-> filtered[i].sql]))

combineOrAll(conds) ==
    IF \E i \in 1..Len(conds) : conds[i].trivial THEN TrivialResult
    ELSE LET filtered == filterResults(conds, "unsatisfiable")
         IN  IF Len(filtered) = 0 THEN UnsatResult
             ELSE IF Len(filtered) = 1 THEN filtered[1]
             ELSE SQLResult(JoinSQL("OR", [i \in 1..Len(filtered) |-> filtered[i].sql]))

RECURSIVE renderCondition(_, _, _)

\* renderLogicalCondition's loop: the flattened children are rendered in
\* order on the same renderer; the first error ends the loop.
RECURSIVE renderChildren(_, _, _, _, _)
renderChildren(flattened, i, rendered, r, env) ==
    IF i > Len(flattened) THEN [rendered |-> rendered, err |-> "", r |-> r]
    ELSE With(renderCondition(flattened[i], r, env), LAMBDA result :
         IF result.err # "" THEN [rendered |-> rendered, err |-> result.err, r |-> result.r]
         ELSE renderChildren(flattened, i + 1, Append(rendered, result.res), result.r, env))

renderLogicalCondition(cond, r, env) ==
    With(renderChildren(flattenLogicalConditions(cond, cond.Operator), 1, <<>>, r, env),
         LAMBDA ch :
    IF ch.err # "" THEN Fail(ch.err, ch.r)
    ELSE CASE cond.Operator = LogicalAnd -> Ok(combineAndAll(ch.rendered), ch.r)
           [] cond.Operator = LogicalOr  -> Ok(combineOrAll(ch.rendered), ch.r)
           [] OTHER -> Fail("unsupported logical operator", ch.r))

renderNotCondition(cond, r, env) ==
    With(renderCondition(cond.Expr, r, env), LAMBDA child :
    IF child.err # "" THEN Fail(child.err, child.r)
    ELSE IF child.res.trivial THEN Ok(UnsatResult, child.r)
    ELSE IF child.res.unsatisfiable THEN Ok(TrivialResult, child.r)
    ELSE Ok(SQLResult(NotSQL(child.res.sql)), child.r))

renderCondition(cond, r, env) ==
    CASE cond.k = "logical" -> renderLogicalCondition(cond, r, env)
      [] cond.k = "not"     -> renderNotCondition(cond, r, env)
      [] cond.k = "cmp"     -> renderComparison(cond, r, env)
      [] cond.k = "pred"    -> renderFieldPredicate(cond, r, env)
      [] cond.k = "in"      -> renderInCondition(cond, r, env)
      [] cond.k = "elemin"  -> renderElementInCondition(cond, r, env)
      [] cond.k = "contains"   -> renderContainsCondition(cond, r, env)
      [] cond.k = "startsWith" -> renderStartsWithCondition(cond, r, env)
      [] cond.k = "endsWith"   -> renderEndsWithCondition(cond, r, env)
      [] cond.k = "compr"   -> renderListComprehension(cond, r, env)
      [] cond.k = "sqlpred" -> renderSQLPredicateCondition(cond, r, env)
      [] cond.k = "const"   -> IF cond.Value THEN Ok(TrivialResult, r) ELSE Ok(UnsatResult, r)
      [] OTHER -> Fail("unsupported condition type", r)

\* Statement; ArgsNil tells a nil Args slice from an empty one.  Render
\* builds every Statement from SQL and Args alone, so NamedArgs is always nil.
Statement(sql, args, argsNil) ==
    [SQL |-> sql, Args |-> args, ArgsNil |-> argsNil, NamedArgs |-> NilBindings]
ZeroStatement == Statement(EmptySQL, <<>>, TRUE)

\* Render with the bug of returning the accumulated args with a folded result.
RenderKeepArgs(cond, env) ==
    With(renderCondition(cond, newRenderer, env), LAMBDA result :
    IF result.err # "" THEN [stmt |-> ZeroStatement, err |-> result.err]
    ELSE IF result.res.unsatisfiable
         THEN [stmt |-> Statement(FalseSQL, result.r.args, FALSE), err |-> ""]
    ELSE IF result.res.trivial
         THEN [stmt |-> Statement(EmptySQL, result.r.args, FALSE), err |-> ""]
    ELSE [stmt |-> Statement(result.res.sql, result.r.args, FALSE), err |-> ""])

\* Render with the bug of returning, with the error, the args built so far.
RenderPartial(cond, env) ==
    With(renderCondition(cond, newRenderer, env), LAMBDA result :
    IF result.err # ""
    THEN [stmt |-> Statement(EmptySQL, result.r.args, FALSE), err |-> result.err]
    ELSE IF result.res.unsatisfiable
         THEN [stmt |-> Statement(FalseSQL, <<>>, FALSE), err |-> ""]
    ELSE IF result.res.trivial
         THEN [stmt |-> Statement(EmptySQL, <<>>, FALSE), err |-> ""]
    ELSE [stmt |-> Statement(result.res.sql, result.r.args, FALSE), err |-> ""])

\* renderer.Render on a fresh renderer (RenderCondition, Program.RenderSQL).
Render(cond, env) ==
    With(renderCondition(cond, newRenderer, env), LAMBDA result :
    IF result.err # "" THEN [stmt |-> ZeroStatement, err |-> result.err]
    ELSE IF result.res.unsatisfiable
         THEN [stmt |-> Statement(FalseSQL, <<>>, FALSE), err |-> ""]
    ELSE IF result.res.trivial
         THEN [stmt |-> Statement(EmptySQL, <<>>, FALSE), err |-> ""]
    ELSE [stmt |-> Statement(result.res.sql, result.r.args, FALSE), err |-> ""])

-----------------------------------------------------------------------------
(* Bounds and inputs *)

\* Most condition nodes in the expressions being compiled.
MaxNodes == 5
\* Most operands waiting on the compiler's stack.
MaxStack == 3
\* The non-zero PlaceholderOffset that render calls are tried with.
MaxOffset == 2

RECURSIVE NodeCount(_)
NodeCount(cond) ==
    CASE cond.k = "logical" -> 1 + NodeCount(cond.Left) + NodeCount(cond.Right)
      [] cond.k = "not" -> 1 + NodeCount(cond.Expr)
      [] OTHER -> 1

RECURSIVE StackNodes(_)
StackNodes(st) == IF st = <<>> THEN 0 ELSE NodeCount(Head(st)) + StackNodes(Tail(st))

\* The leaf expressions: true, false, creator_id == 1,
\* creator_id == current_user_id, current_user_id == 2 (no column),
\* visibility in ["PUBLIC", "PROTECTED"], pinned == true.
LeafTrue      == ConstantCondition(TRUE)
LeafFalse     == ConstantCondition(FALSE)
LeafCreator   == ComparisonCondition(FieldRef("creator_id"), CompareEq, LiteralValue(IntV(1)))
LeafSelfUser  == ComparisonCondition(FieldRef("creator_id"), CompareEq, ParamRef("current_user_id"))
LeafParamOnly == ComparisonCondition(ParamRef("current_user_id"), CompareEq, LiteralValue(IntV(2)))
LeafVisibleIn == InCondition(FieldRef("visibility"),
                     <<LiteralValue(StrV("PUBLIC")), LiteralValue(StrV("PROTECTED"))>>)
LeafPinned    == ComparisonCondition(FieldRef("pinned"), CompareEq, LiteralValue(BoolV(TRUE)))

Leaves == {LeafTrue, LeafFalse, LeafCreator, LeafSelfUser, LeafParamOnly,
           LeafVisibleIn, LeafPinned}

Dialects == {DialectSQLite, DialectMySQL, DialectPostgres}
Offsets  == {0, MaxOffset}
BindingChoices ==
    {NilBindings,
     Bindings([current_user_id |-> IntV(2)]),
     Bindings([current_user_id |-> NilV])}

NoProgram   == [k |-> "none"]
NotRendered == [done |-> FALSE]
NotGranted  == [done |-> FALSE]
NotAppended == [done |-> FALSE]
NotBuilt    == [done |-> FALSE]
NotCompiled == [done |-> FALSE]
NoRole      == [k |-> "none"]

-----------------------------------------------------------------------------
(* AppendConditions *)

\* One pass of the loop of AppendConditions on a rendered Statement: an
\* empty SQL is skipped, otherwise "(sql)" and the args are appended.
appendStatement(stmt, where, args) ==
    IF stmt.SQL = EmptySQL THEN [where |-> where, args |-> args]
    ELSE [where |-> Append(where, ParenSQL(stmt.SQL)), args |-> args \o stmt.Args]

\* AppendConditions over the compiled filters: each is rendered without
\* bindings at PlaceholderOffset = len(args); an error returns at once.
\* steps records where and args after each filter that was rendered.
RECURSIVE AppendConditions(_, _, _, _, _)
AppendConditions(filters, dialect, where, args, steps) ==
    IF filters = <<>> THEN [where |-> where, args |-> args, err |-> "", steps |-> steps]
    ELSE With(Render(Head(filters), RenderEnv(dialect, Len(args), NilBindings)),
           LAMBDA res :
             IF res.err # ""
             THEN [where |-> where, args |-> args, err |-> res.err, steps |-> steps]
             ELSE With(appendStatement(res.stmt, where, args),
                    LAMBDA step :
                      AppendConditions(Tail(filters), dialect, step.where, step.args,
                                       Append(steps, step))))

-----------------------------------------------------------------------------
(* The RBAC graph and the permissions of a role *)

StdPermission(id)          == [k |-> "std", SID |-> id]
FilterPermission(id, expr) == [k |-> "filter", SID |-> id, Filter |-> expr]
NoPermission               == [k |-> "none"]

\* StdPermission.Match: the IDs are equal.
Match(assigned, requested) == assigned.SID = requested.SID

\* The order in which a Go map is ranged over is not fixed: ord picks it.
RoleRank(id) ==
    CASE id = "role-a" -> 1
      [] id = "role-b" -> 2
      [] id = "role-c" -> 3
      [] OTHER -> 4
PermRank(id) ==
    CASE id = "read" -> 1
      [] id = "edit" -> 2
      [] OTHER -> 3

RECURSIVE RangeOver(_, _, _)
RangeOver(keys, ord, rank) ==
    IF keys = {} THEN <<>>
    ELSE LET first == CHOOSE x \in keys : \A y \in keys :
                          IF ord = "asc" THEN rank[x] <= rank[y] ELSE rank[x] >= rank[y]
         IN  <<first>> \o RangeOver(keys \ {first}, ord, rank)

\* Role.Permissions(): the assigned permissions in map order.
Permissions(role, ord) ==
    LET ids  == {id \in DOMAIN role : role[id] # NoPermission}
        keys == RangeOver(ids, ord, [id \in ids |-> PermRank(id)])
    IN  [i \in 1..Len(keys) |-> role[keys[i]]]

\* RBAC.Get(id): the role, its parents in map order, an error for an id that
\* was never added.
Get(g, id, ord) ==
    IF id \notin g.roles
    THEN [role |-> <<>>, parents |-> <<>>, err |-> "role does not exist"]
    ELSE [role |-> g.permissions[id],
          parents |-> RangeOver(g.parents[id], ord,
                                [r \in g.parents[id] |-> RoleRank(r)]),
          err |-> ""]

-----------------------------------------------------------------------------
(* The permission closure: the per-build cache and the recursive walk *)

MapPut(m, key, value) ==
    [x \in (DOMAIN m) \cup {key} |-> IF x = key THEN value ELSE m[x]]

SeqRange(seq) == {seq[i] : i \in 1..Len(seq)}

newPermissionClosureCache ==
    [roleClosure |-> <<>>, directPermissions |-> <<>>, allPermissions |-> <<>>]

\* The inner loop of roleClosureInternal: ids not seen yet are appended.
RECURSIVE appendUnseen(_, _)
appendUnseen(closure, ids) ==
    IF ids = <<>> THEN closure
    ELSE IF Head(ids) \in SeqRange(closure) THEN appendUnseen(closure, Tail(ids))
    ELSE appendUnseen(Append(closure, Head(ids)), Tail(ids))

\* roleClosureInternal returns the closure and the cache it leaves behind.
\* A cached role returns its cached closure; a role on the visiting stack
\* returns nil; otherwise the role's own id and the closures of its parents
\* are merged and the result is cached.
RECURSIVE roleClosureInternal(_, _, _, _, _)
RECURSIVE closeParents(_, _, _, _, _, _, _)
closeParents(c, closure, parents, i, visiting, g, ord) ==
    IF i > Len(parents) THEN [closure |-> closure, c |-> c]
    ELSE With(roleClosureInternal(c, parents[i], visiting, g, ord),
           LAMBDA sub :
             With(appendUnseen(closure, sub.closure),
               LAMBDA merged :
                 closeParents(sub.c, merged, parents, i + 1, visiting, g, ord)))
roleClosureInternal(c, roleID, visiting, g, ord) ==
    IF roleID \in DOMAIN c.roleClosure
    THEN [closure |-> c.roleClosure[roleID], ok |-> TRUE, c |-> c]
    ELSE IF roleID \in visiting
    THEN [closure |-> <<>>, ok |-> TRUE, c |-> c]
    ELSE With(Get(g, roleID, ord),
           LAMBDA got :
             IF got.err # ""
             THEN [closure |-> <<>>, ok |-> FALSE,
                   c |-> [c EXCEPT !.roleClosure = MapPut(@, roleID, <<>>),
                                   !.directPermissions = MapPut(@, roleID, <<>>)]]
             ELSE With(closeParents(
                           [c EXCEPT !.directPermissions =
                                         MapPut(@, roleID, Permissions(got.role, ord))],
                           <<roleID>>, got.parents, 1, visiting \cup {roleID}, g, ord),
                    LAMBDA done :
                      [closure |-> done.closure, ok |-> TRUE,
                       c |-> [done.c EXCEPT !.roleClosure =
                                                MapPut(@, roleID, done.closure)]]))

RECURSIVE mergeDirect(_, _)
mergeDirect(c, closure) ==
    IF closure = <<>> THEN <<>>
    ELSE c.directPermissions[Head(closure)] \o mergeDirect(c, Tail(closure))

\* permissionClosureCache.permissions(roleID)
permissions(c, roleID, g, ord) ==
    IF roleID \in DOMAIN c.allPermissions
    THEN [perms |-> c.allPermissions[roleID], c |-> c]
    ELSE With(roleClosureInternal(c, roleID, {}, g, ord),
           LAMBDA res :
             IF Len(res.closure) = 0
             THEN [perms |-> <<>>,
                   c |-> [res.c EXCEPT !.allPermissions = MapPut(@, roleID, <<>>)]]
             ELSE With(mergeDirect(res.c, res.closure),
                    LAMBDA merged :
                      [perms |-> merged,
                       c |-> [res.c EXCEPT !.allPermissions =
                                               MapPut(@, roleID, merged)]]))

\* collectMatchingPermissions: walk(id) with one visited set per call; the
\* result is the matching permissions in visit order.
RECURSIVE walk(_, _, _, _, _)
RECURSIVE walkParents(_, _, _, _, _, _)
walkParents(parents, i, st, requested, g, ord) ==
    IF i > Len(parents) \/ st.err # "" THEN st
    ELSE walkParents(parents, i + 1, walk(parents[i], st, requested, g, ord),
                     requested, g, ord)
walk(id, st, requested, g, ord) ==
    IF id \in st.visited THEN st
    ELSE LET got == Get(g, id, ord) IN
         IF got.err # "" THEN [st EXCEPT !.visited = @ \cup {id}, !.err = got.err]
         ELSE LET own == SelectSeq(Permissions(got.role, ord),
                                   LAMBDA assigned : Match(assigned, requested))
              IN  walkParents(got.parents, 1,
                              [st EXCEPT !.visited = @ \cup {id}, !.result = @ \o own],
                              requested, g, ord)

collectMatchingPermissions(g, roleID, requested, ord) ==
    LET st == walk(roleID, [visited |-> {}, result |-> <<>>, err |-> ""], requested, g, ord)
    IN  IF st.err # "" THEN [result |-> <<>>, err |-> st.err]
        ELSE [result |-> st.result, err |-> ""]

-----------------------------------------------------------------------------
(* The composer: NewFilterProgram *)

\* Engine.Compile of the filter expressions roles carry.
CompileExpr(expr) ==
    CASE expr = "" -> [cond |-> ConstantCondition(FALSE), err |-> "filter expression is empty"]
      [] expr = "creator_id == 1" -> [cond |-> LeafCreator, err |-> ""]
      [] expr = "visibility in [\"PUBLIC\", \"PROTECTED\"]" -> [cond |-> LeafVisibleIn, err |-> ""]
      [] OTHER -> [cond |-> ConstantCondition(FALSE), err |-> "failed to compile filter"]

isExactMatchOnlyPermission(p) == p.k \in {"std", "filter"}

bucketPermissionsByMatchKind(all) ==
    LET exact == SelectSeq(all, isExactMatchOnlyPermission)
        ids   == {exact[i].SID : i \in 1..Len(exact)}
    IN  [exactByID |-> [id \in ids |-> SelectSeq(exact, LAMBDA p : p.SID = id)],
         nonExact  |-> SelectSeq(all, LAMBDA p : ~isExactMatchOnlyPermission(p))]

\* permissionBuckets.match
bucketsMatch(b, requested) ==
    (IF requested.SID \in DOMAIN b.exactByID THEN b.exactByID[requested.SID] ELSE <<>>)
    \o SelectSeq(b.nonExact, LAMBDA assigned : Match(assigned, requested))

RECURSIVE collectPermissionVariantConditions(_)
collectPermissionVariantConditions(matching) ==
    IF matching = <<>> THEN [variants |-> <<>>, err |-> ""]
    ELSE LET assigned == Head(matching)
             first == IF assigned.k = "filter" THEN CompileExpr(assigned.Filter)
                      ELSE [cond |-> ConstantCondition(TRUE), err |-> ""]
         IN  IF first.err # "" THEN [variants |-> <<>>, err |-> first.err]
             ELSE LET rest == collectPermissionVariantConditions(Tail(matching)) IN
                  IF rest.err # "" THEN rest
                  ELSE [variants |-> <<first.cond>> \o rest.variants, err |-> ""]

RECURSIVE foldLogical(_, _, _)
foldLogical(op, out, conds) ==
    IF conds = <<>> THEN out
    ELSE foldLogical(op, LogicalCondition(op, out, Head(conds)), Tail(conds))

andAll(conds) ==
    IF Len(conds) = 0 THEN ConstantCondition(TRUE)
    ELSE foldLogical(LogicalAnd, Head(conds), Tail(conds))

\* orAll keeping only the first condition.
orAllFirst(conds) ==
    IF Len(conds) = 0 THEN ConstantCondition(FALSE)
    ELSE Head(conds)

orAll(conds) ==
    IF Len(conds) = 0 THEN ConstantCondition(FALSE)
    ELSE foldLogical(LogicalOr, Head(conds), Tail(conds))

\* The loop of buildSingleRoleCondition from required permission i on.
RECURSIVE permissionConditions(_, _, _, _)
permissionConditions(buckets, required, i, permConds) ==
    IF i > Len(required) THEN [cond |-> andAll(permConds), ok |-> TRUE, err |-> ""]
    ELSE LET matching == bucketsMatch(buckets, required[i]) IN
         IF Len(matching) = 0
         THEN [cond |-> ConstantCondition(FALSE), ok |-> FALSE, err |-> ""]
         ELSE LET got == collectPermissionVariantConditions(matching) IN
              IF got.err # ""
              THEN [cond |-> ConstantCondition(FALSE), ok |-> FALSE, err |-> got.err]
              ELSE permissionConditions(buckets, required, i + 1,
                       Append(permConds, orAll(got.variants)))

\* The same loop where a required permission without a match is passed over.
RECURSIVE permissionConditionsLenient(_, _, _, _)
permissionConditionsLenient(buckets, required, i, permConds) ==
    IF i > Len(required) THEN [cond |-> andAll(permConds), ok |-> TRUE, err |-> ""]
    ELSE LET matching == bucketsMatch(buckets, required[i]) IN
         IF Len(matching) = 0
         THEN permissionConditionsLenient(buckets, required, i + 1, permConds)
         ELSE LET got == collectPermissionVariantConditions(matching) IN
              IF got.err # ""
              THEN [cond |-> ConstantCondition(FALSE), ok |-> FALSE, err |-> got.err]
              ELSE permissionConditionsLenient(buckets, required, i + 1,
                       Append(permConds, orAll(got.variants)))

buildSingleRoleConditionLenient(rolePermissions, required) ==
    permissionConditionsLenient(bucketPermissionsByMatchKind(rolePermissions), required, 1, <<>>)

buildSingleRoleCondition(rolePermissions, required) ==
    permissionConditions(bucketPermissionsByMatchKind(rolePermissions), required, 1, <<>>)

\* The loop of NewFilterProgram over the listed roles.  queried records, per
\* listed role, the permissions the cache returned and whether the role
\* contributed a disjunct.
RECURSIVE roleConditions(_, _, _, _, _, _, _)
roleConditions(roles, i, required, cache, acc, g, ord) ==
    IF i > Len(roles)
    THEN [program |-> IF Len(acc.roleConds) = 0 THEN ConstantCondition(FALSE)
                      ELSE orAll(acc.roleConds),
          err |-> "", cache |-> cache, queried |-> acc.queried]
    ELSE With(permissions(cache, roles[i], g, ord),
           LAMBDA got :
             With(buildSingleRoleCondition(got.perms, required),
               LAMBDA cond :
                 With(Append(acc.queried,
                             [role |-> roles[i], perms |-> got.perms, ok |-> cond.ok]),
                   LAMBDA queried :
                     IF cond.err # ""
                     THEN [program |-> NoProgram, err |-> cond.err, cache |-> got.c,
                           queried |-> queried]
                     ELSE roleConditions(roles, i + 1, required, got.c,
                              [roleConds |-> IF cond.ok
                                             THEN Append(acc.roleConds, cond.cond)
                                             ELSE acc.roleConds,
                               queried |-> queried],
                              g, ord))))

NewFilterProgram(g, roles, required, ord) ==
    IF Len(required) = 0
    THEN [program |-> NoProgram, err |-> "permissions is empty",
          cache |-> newPermissionClosureCache, queried |-> <<>>]
    ELSE roleConditions(roles, 1, required, newPermissionClosureCache,
                        [roleConds |-> <<>>, queried |-> <<>>], g, ord)

-----------------------------------------------------------------------------
(* Bounds and inputs of the role graph *)

\* Most parent edges and most assigned permissions in the role graph.
MaxEdges  == 3
MaxAssign == 2

RoleIDs == {"role-a", "role-b", "role-c"}
PermIDs == {"read", "edit"}
FilterExprs == {"creator_id == 1"}

\* The permissions a role can be assigned, the role lists and the required
\* permission lists NewFilterProgram is called with.
AssignChoices ==
    {StdPermission(id) : id \in PermIDs}
    \cup {FilterPermission(id, expr) : id \in PermIDs, expr \in FilterExprs}
RoleLists ==
    {<<r>> : r \in RoleIDs}
    \cup {pair \in RoleIDs \X RoleIDs : pair[1] # pair[2]}
RequiredLists ==
    {<<>>, <<StdPermission("read")>>, <<StdPermission("read"), StdPermission("edit")>>}
MapOrders == {"asc", "desc"}

\* gorbac.New() followed by Add of the three roles, nothing assigned yet.
EmptyRBAC ==
    [roles       |-> RoleIDs,
     parents     |-> [r \in RoleIDs |-> {}],
     permissions |-> [r \in RoleIDs |-> [id \in PermIDs |-> NoPermission]]]


-----------------------------------------------------------------------------
(* Compiling an expression: buildCondition walks the AST bottom-up *)

\* The caller is still writing expressions: nothing was compiled into a
\* Program or handed to AppendConditions yet.
Building == program = NoProgram /\ ~appendCall.done

\* buildCondition on a leaf of the AST (constant, comparison, in).
PushLeaf(leaf) ==
    /\ Building
    /\ Len(stack) < MaxStack
    /\ StackNodes(stack) + 1 <= MaxNodes
    /\ stack' = Append(stack, leaf)
    /\ UNCHANGED <<program, renderCall, grantCall, appendCall, rbac, buildCall, compileCall, stdRole>>

\* buildCallCondition for _&&_ and _||_: the two operands are built first.
BuildLogical(op) ==
    /\ Building
    /\ Len(stack) >= 2
    /\ StackNodes(stack) + 1 <= MaxNodes
    /\ stack' = Append(SubSeq(stack, 1, Len(stack) - 2),
                       LogicalCondition(op, stack[Len(stack) - 1], stack[Len(stack)]))
    /\ UNCHANGED <<program, renderCall, grantCall, appendCall, rbac, buildCall, compileCall, stdRole>>

\* buildCallCondition for !_.
BuildNot ==
    /\ Building
    /\ Len(stack) >= 1
    /\ StackNodes(stack) + 1 <= MaxNodes
    /\ stack' = Append(SubSeq(stack, 1, Len(stack) - 1), NotCondition(stack[Len(stack)]))
    /\ UNCHANGED <<program, renderCall, grantCall, appendCall, rbac, buildCall, compileCall, stdRole>>

\* Engine.Compile returns the Program that wraps the built condition.
Compile ==
    /\ Building
    /\ Len(stack) = 1
    /\ program' = stack[1]
    /\ stack' = <<>>
    /\ UNCHANGED <<renderCall, grantCall, appendCall, rbac, buildCall, compileCall, stdRole>>

\* The comparisons of a tree whose field is on the right, swapped in the tree
\* itself.
RECURSIVE SwapInPlace(_)
SwapInPlace(cond) ==
    CASE cond.k = "logical" ->
           LogicalCondition(cond.Operator, SwapInPlace(cond.Left), SwapInPlace(cond.Right))
      [] cond.k = "not" -> NotCondition(SwapInPlace(cond.Expr))
      [] cond.k = "cmp" /\ cond.Left.k # "field" /\ cond.Right.k = "field" ->
           ComparisonCondition(cond.Right, invertComparisonOperator(cond.Operator), cond.Left)
      [] OTHER -> cond

\* RenderSQL writing the swapped comparisons back into the Program.
RenderSQLInPlace(dialect, offset, bindings) ==
    /\ program # NoProgram
    /\ ~renderCall.done
    /\ LET env == RenderEnv(dialect, offset, bindings)
           res == Render(program, env)
       IN  renderCall' = [done |-> TRUE, env |-> env, stmt |-> res.stmt, err |-> res.err]
    /\ program' = SwapInPlace(program)
    /\ UNCHANGED <<stack, grantCall, appendCall, rbac, buildCall, compileCall, stdRole>>

\* Program.RenderSQL(bindings, opts)
RenderSQL(dialect, offset, bindings) ==
    /\ program # NoProgram
    /\ ~renderCall.done
    /\ LET env == RenderEnv(dialect, offset, bindings)
           res == Render(program, env)
       IN  renderCall' = [done |-> TRUE, env |-> env, stmt |-> res.stmt, err |-> res.err]
    /\ UNCHANGED <<stack, program, grantCall, appendCall, rbac, buildCall, compileCall, stdRole>>

\* The rows IsGranted is tried on: every field present, non-null and of its
\* declared type.
Rows ==
    [creator_id : {IntV(1), IntV(2)},
     visibility : {StrV("PUBLIC"), StrV("PRIVATE")},
     pinned     : {BoolV(TRUE), BoolV(FALSE)}]

\* The bindings IsGranted and the matching render are tried with: the
\* parameter is always bound (to an int, to nil, to a string).
BoundChoices ==
    {Bindings([current_user_id |-> IntV(2)]),
     Bindings([current_user_id |-> NilV]),
     Bindings([current_user_id |-> StrV("PUBLIC")])}

\* The vars map of an evaluation: the row's fields and the bound parameters.
EvalVars(row, bindings) ==
    [n \in DOMAIN row \cup DOMAIN bindings.m |->
        IF n \in DOMAIN row THEN row[n] ELSE bindings.m[n]]

\* Program.IsGranted(vars, opts)
IsGranted(row, bindings) ==
    /\ program # NoProgram
    /\ ~grantCall.done
    /\ ~renderCall.done
    /\ LET res == EvaluateCondition(program, EvalVars(row, bindings))
       IN  grantCall' = [done |-> TRUE, row |-> row, bindings |-> bindings,
                         val |-> res.val, err |-> res.err]
    /\ UNCHANGED <<stack, program, renderCall, appendCall, rbac, buildCall, compileCall, stdRole>>

\* AppendConditions(engine, filters, dialect, &where, &args) on empty where
\* and args; the filters are the expressions written so far.
AppendFilters(dialect) ==
    /\ Building
    /\ Len(stack) >= 1
    /\ LET res == AppendConditions(stack, dialect, <<>>, <<>>, <<>>)
       IN  appendCall' = [done |-> TRUE, dialect |-> dialect, filters |-> stack,
                          where |-> res.where, args |-> res.args, err |-> res.err,
                          steps |-> res.steps]
    /\ UNCHANGED <<stack, program, renderCall, grantCall, rbac, buildCall, compileCall, stdRole>>

\* RBAC.SetParent(id, parent)
SetParent(id, parent) ==
    /\ ~buildCall.done
    /\ id \in rbac.roles /\ parent \in rbac.roles
    /\ parent \notin rbac.parents[id]
    /\ Cardinality({e \in RoleIDs \X RoleIDs : e[2] \in rbac.parents[e[1]]}) < MaxEdges
    /\ rbac' = [rbac EXCEPT !.parents[id] = @ \cup {parent}]
    /\ UNCHANGED <<stack, program, renderCall, grantCall, appendCall, buildCall, compileCall, stdRole>>

\* Role.Assign(p): the permission replaces the one with the same ID.
Assign(id, p) ==
    /\ ~buildCall.done
    /\ rbac.permissions[id][p.SID] # p
    /\ Cardinality({s \in RoleIDs \X PermIDs :
                       s = <<id, p.SID>> \/ rbac.permissions[s[1]][s[2]] # NoPermission})
           <= MaxAssign
    /\ rbac' = [rbac EXCEPT !.permissions[id][p.SID] = p]
    /\ UNCHANGED <<stack, program, renderCall, grantCall, appendCall, buildCall, compileCall, stdRole>>

\* NewFilterProgram(rbac, roles, permissions, schema)
BuildFilterProgram(roles, required, ord) ==
    /\ ~buildCall.done
    /\ LET res == NewFilterProgram(rbac, roles, required, ord)
       IN  buildCall' = [done |-> TRUE, roles |-> roles, permissions |-> required,
                         program |-> res.program, err |-> res.err,
                         queried |-> res.queried]
    /\ UNCHANGED <<stack, program, renderCall, grantCall, appendCall, rbac, compileCall, stdRole>>

Init ==
    /\ stack = <<>>
    /\ program = NoProgram
    /\ renderCall = NotRendered
    /\ grantCall = NotGranted
    /\ appendCall = NotAppended
    /\ rbac = EmptyRBAC
    /\ buildCall = NotBuilt
    /\ compileCall = NotCompiled
    /\ stdRole = NoRole

Next ==
    \/ \E leaf \in Leaves : PushLeaf(leaf)
    \/ \E op \in {LogicalAnd, LogicalOr} : BuildLogical(op)
    \/ BuildNot
    \/ Compile
    \/ \E d \in Dialects, o \in Offsets, b \in BindingChoices : RenderSQL(d, o, b)

Spec == Init /\ [][Next]_vars

\* Compiling an expression and evaluating it in memory.
NextEval ==
    \/ \E leaf \in Leaves : PushLeaf(leaf)
    \/ \E op \in {LogicalAnd, LogicalOr} : BuildLogical(op)
    \/ BuildNot
    \/ Compile
    \/ \E row \in Rows, b \in BoundChoices : IsGranted(row, b)

SpecEval == Init /\ [][NextEval]_vars

\* Writing a list of filters and appending them to a query.
NextAppend ==
    \/ \E leaf \in Leaves : PushLeaf(leaf)
    \/ \E op \in {LogicalAnd, LogicalOr} : BuildLogical(op)
    \/ BuildNot
    \/ \E d \in Dialects : AppendFilters(d)

SpecAppend == Init /\ [][NextAppend]_vars

\* Setting up a role graph and composing the filter program of a role list.
NextCompose ==
    \/ \E id \in RoleIDs, parent \in RoleIDs : SetParent(id, parent)
    \/ \E id \in RoleIDs, p \in AssignChoices : Assign(id, p)
    \/ \E roles \in RoleLists, required \in RequiredLists, ord \in MapOrders :
           BuildFilterProgram(roles, required, ord)

SpecCompose == Init /\ [][NextCompose]_vars

\* Composing over role lists that repeat a role or name a role that was never
\* added, with permissions whose filter is empty.
GraphRoles  == {"role-a", "role-b"}
ListedRoles == GraphRoles \cup {"ghost"}
ListedRoleLists ==
    {<<r>> : r \in ListedRoles} \cup (ListedRoles \X ListedRoles)
ListedAssignChoices ==
    AssignChoices \cup {FilterPermission("read", "")}
ListedRequiredLists ==
    {<<StdPermission("read")>>, <<StdPermission("read"), StdPermission("edit")>>}

NextRoles ==
    \/ \E id \in GraphRoles, parent \in GraphRoles : SetParent(id, parent)
    \/ \E id \in GraphRoles, p \in ListedAssignChoices : Assign(id, p)
    \/ \E roles \in ListedRoleLists, required \in ListedRequiredLists, ord \in MapOrders :
           BuildFilterProgram(roles, required, ord)

SpecRoles == Init /\ [][NextRoles]_vars

-----------------------------------------------------------------------------
(* Programs over every kind of condition, rendered with the full RenderOptions *)

\* The sql() predicates registered with the engine: is_creator of the
\* predicate tests, the same through the alias owner, needs_arg of the
\* mismatch test, and templates with two slots, with blanks only, with a
\* Postgres text only, and with a {{ that is never closed.
TemplateIsCreator ==
    <<Text("EXISTS (SELECT 1 WHERE "), ColumnSlot("creator_id"), Text(" = "), ArgSlot, Text(")")>>
TemplateIsOwner ==
    <<Text("EXISTS (SELECT 1 WHERE "), ColumnSlot("owner"), Text(" = "), ArgSlot, Text(")")>>
TemplateBetween ==
    <<ColumnSlot("creator_id"), Text(" BETWEEN "), ArgSlot, Text(" AND "), ArgSlot>>

PredIsCreator ==
    SQLPredicateCondition("is_creator", DialectSQL(TemplateIsCreator, <<>>, <<>>, <<>>),
                          <<ParamRef("current_user_id")>>)
PredIsOwner ==
    SQLPredicateCondition("is_owner", DialectSQL(TemplateIsOwner, <<>>, <<>>, <<>>),
                          <<ParamRef("current_user_id")>>)
PredBetween ==
    SQLPredicateCondition("between", DialectSQL(TemplateBetween, <<>>, <<>>, <<>>),
                          <<LiteralValue(IntV(1)), ParamRef("current_user_id")>>)
PredNeedsArg ==
    SQLPredicateCondition("needs_arg", DialectSQL(<<Text("1 = "), ArgSlot>>, <<>>, <<>>, <<>>),
                          <<>>)
PredTooFewArgs ==
    SQLPredicateCondition("between", DialectSQL(TemplateBetween, <<>>, <<>>, <<>>),
                          <<LiteralValue(IntV(1))>>)
PredTooManyArgs ==
    SQLPredicateCondition("is_creator", DialectSQL(TemplateIsCreator, <<>>, <<>>, <<>>),
                          <<LiteralValue(IntV(1)), LiteralValue(IntV(2))>>)
PredBlank ==
    SQLPredicateCondition("blank", DialectSQL(<<Space, Space>>, <<>>, <<>>, <<>>), <<>>)
PredPostgresOnly ==
    SQLPredicateCondition("pg_only", DialectSQL(<<>>, <<>>, <<>>, <<Text("TRUE")>>), <<>>)
PredUnterminated ==
    SQLPredicateCondition("broken", DialectSQL(<<Text("x = "), Unterminated>>, <<>>, <<>>, <<>>),
                          <<>>)

SQLPredicates ==
    {PredIsCreator, PredIsOwner, PredBetween, PredNeedsArg, PredTooFewArgs,
     PredTooManyArgs, PredBlank, PredPostgresOnly, PredUnterminated}

\* Conditions that name a field through an alias, one per kind of condition:
\* flag, owner == 1, owner in [1], tag in ["work"], label in ["work"],
\* "work" in label, vis.contains("PUB"), vis.startsWith(q),
\* label.exists(x, x.startsWith("work")), size(label) > 0.
LeafFlag      == FieldPredicateCondition("flag")
LeafOwnerEq   == ComparisonCondition(FieldRef("owner"), CompareEq, LiteralValue(IntV(1)))
LeafOwnerIn   == InCondition(FieldRef("owner"), <<LiteralValue(IntV(1))>>)
LeafTagIn     == InCondition(FieldRef("tag"), <<LiteralValue(StrV("work"))>>)
LeafLabelIn   == InCondition(FieldRef("label"), <<LiteralValue(StrV("work"))>>)
LeafLabelHas  == ElementInCondition(LiteralValue(StrV("work")), "label")
LeafVisContains == ContainsCondition("vis", LiteralValue(StrV("PUB")))
LeafVisStarts == StartsWithCondition("vis", ParamRef("q"))
LeafLabelAny  == ListComprehensionCondition("exists", "label",
                     StartsWithPredicate(LiteralValue(StrV("work"))))
LeafLabelSize == ComparisonCondition(FunctionValue("size", <<FieldRef("label")>>),
                     CompareGt, LiteralValue(IntV(0)))
\* Conditions on the fields themselves: creator_id < current_user_id,
\* visibility.endsWith(q), tags.exists(x, x.contains(q)).
LeafOlder     == ComparisonCondition(FieldRef("creator_id"), CompareLt, ParamRef("current_user_id"))
LeafVisEnds   == EndsWithCondition("visibility", ParamRef("q"))
LeafTagsAny   == ListComprehensionCondition("exists", "tags", ContainsPredicate(ParamRef("q")))

KindLeaves ==
    {LeafTrue, LeafFalse, LeafCreator, LeafSelfUser, LeafOlder, LeafVisEnds, LeafTagsAny,
     LeafFlag, LeafOwnerEq, LeafOwnerIn, LeafTagIn, LeafLabelIn, LeafLabelHas,
     LeafVisContains, LeafVisStarts, LeafLabelAny, LeafLabelSize}
    \cup SQLPredicates

\* The condition trees handed to NewProgramFromCondition: a leaf, its
\* negation, or two leaves joined by AND or OR.
KindTrees ==
    KindLeaves
    \cup {NotCondition(c) : c \in KindLeaves}
    \cup {LogicalCondition(op, l, r) : op \in {LogicalAnd, LogicalOr},
                                       l \in KindLeaves, r \in KindLeaves}

\* RenderOptions.TableAliases: a Go map that may be nil.
NoTableAliases  == [isNil |-> TRUE, m |-> <<>>]
TableAliases(m) == [isNil |-> FALSE, m |-> m]

\* RenderOptions
RenderOptions(dialect, offset, aliases, omit) ==
    [Dialect |-> dialect, PlaceholderOffset |-> offset, TableAliases |-> aliases,
     OmitTableQualifier |-> omit]

AllDialects == Dialects \cup {DialectPostgresNamedArgs}
QualifierChoices ==
    {<<NoTableAliases, FALSE>>, <<TableAliases([t |-> "p"]), FALSE>>,
     <<TableAliases([t |-> ""]), FALSE>>, <<TableAliases([u |-> "x"]), FALSE>>,
     <<NoTableAliases, TRUE>>}
OptionChoices ==
    {RenderOptions(d, o, q[1], q[2]) : d \in AllDialects, o \in Offsets, q \in QualifierChoices}

\* The bindings of a render: none; both parameters bound to values of the
\* expected types; current_user_id bound to nil and q to an integer.
KindBindings ==
    {NilBindings,
     Bindings([current_user_id |-> IntV(2), q |-> StrV("work")]),
     Bindings([current_user_id |-> NilV, q |-> IntV(7)])}

\* newRenderer(schema, opts, bindings): the renderer keeps opts.Dialect and
\* opts.PlaceholderOffset and the bindings.
rendererOptions(opts, bindings) == RenderEnv(opts.Dialect, opts.PlaceholderOffset, bindings)

\* NewProgramFromCondition(schema, cond)
NewProgramFromCondition(cond) ==
    /\ program = NoProgram
    /\ stack = <<>>
    /\ ~compileCall.done
    /\ program' = cond
    /\ UNCHANGED <<stack, renderCall, grantCall, appendCall, rbac, buildCall, compileCall, stdRole>>

\* buildComparisonCondition with the bug of not reading the allow-list.
buildComparisonConditionUnchecked(left, op, right) ==
    [cond |-> ComparisonCondition(left, op, right), err |-> ""]

\* buildComparisonCondition once the operator and both operands are built: a
\* left operand that is a field is checked against a non-nil allow-list.
buildComparisonCondition(left, op, right) ==
    IF left.k = "field" /\ ~SchemaField(left.Name).ok
    THEN [cond |-> NoProgram, err |-> "unknown identifier"]
    ELSE IF left.k = "field"
            /\ ~SchemaField(left.Name).field.AllowedComparisonOps.isNil
            /\ op \notin SchemaField(left.Name).field.AllowedComparisonOps.keys
    THEN [cond |-> NoProgram, err |-> "operator not allowed for field"]
    ELSE [cond |-> ComparisonCondition(left, op, right), err |-> ""]

\* buildValueExpr on an identifier: a schema field or a parameter.
buildValueExpr(name) == IF SchemaField(name).ok THEN FieldRef(name) ELSE ParamRef(name)

ComparisonOperators == {CompareEq, CompareNeq, CompareLt, CompareLte, CompareGt, CompareGte}
\* The identifiers compared, and for each the literal it is compared with
\* (of the identifier's CEL type, so that the expression type-checks).
ComparedNames ==
    {"creator_id", "visibility", "pinned", "tag", "label", "owner", "vis", "flag",
     "current_user_id"}
LiteralFor(name) ==
    IF ~SchemaField(name).ok THEN LiteralValue(IntV(2))
    ELSE CASE SchemaField(name).field.Type = FieldTypeInt -> LiteralValue(IntV(1))
           [] SchemaField(name).field.Type = FieldTypeBool -> LiteralValue(BoolV(TRUE))
           [] OTHER -> LiteralValue(StrV("PUBLIC"))

\* Engine.Compile of the expression `name op literal`.
CompileComparison(name, op) ==
    /\ program = NoProgram
    /\ stack = <<>>
    /\ ~compileCall.done
    /\ LET res == buildComparisonCondition(buildValueExpr(name), op, LiteralFor(name))
       IN  /\ compileCall' = [done |-> TRUE, name |-> name, op |-> op, err |-> res.err]
           /\ program' = res.cond
    /\ UNCHANGED <<stack, renderCall, grantCall, appendCall, rbac, buildCall, stdRole>>

\* Program.RenderSQL(bindings, opts) with every field of opts.
RenderSQLOptions(opts, bindings) ==
    /\ program # NoProgram
    /\ ~renderCall.done
    /\ LET env == rendererOptions(opts, bindings)
           res == Render(program, env)
       IN  renderCall' = [done |-> TRUE, env |-> env, opts |-> opts,
                          stmt |-> res.stmt, err |-> res.err]
    /\ UNCHANGED <<stack, program, grantCall, appendCall, rbac, buildCall, compileCall, stdRole>>

NextKinds ==
    \/ \E cond \in KindTrees : NewProgramFromCondition(cond)
    \/ \E name \in ComparedNames, op \in ComparisonOperators : CompileComparison(name, op)
    \/ \E opts \in OptionChoices, b \in KindBindings : RenderSQLOptions(opts, b)

SpecKinds == Init /\ [][NextKinds]_vars

-----------------------------------------------------------------------------
(* Chains of AND and OR *)

\* Most leaves in the trees of AND and OR handed to NewProgramFromCondition.
MaxChainLeaves == 4

ChainLeaves == {LeafTrue, LeafFalse, LeafCreator, LeafVisibleIn}

\* The trees of AND and OR with n leaves, in every nesting.
RECURSIVE ChainTreesOf(_)
ChainTreesOf(n) ==
    IF n = 1 THEN ChainLeaves
    ELSE UNION {{LogicalCondition(op, l, r) :
                    op \in {LogicalAnd, LogicalOr},
                    l \in ChainTreesOf(i), r \in ChainTreesOf(n - i)} : i \in 1..(n - 1)}
ChainTrees == UNION {ChainTreesOf(n) : n \in 1..MaxChainLeaves}

\* NewProgramFromCondition on one of those trees.
NewChainProgram ==
    /\ program = NoProgram
    /\ \E cond \in ChainTrees : NewProgramFromCondition(cond)

NextChain ==
    \/ NewChainProgram
    \/ \E d \in {DialectSQLite, DialectPostgres}, o \in Offsets : RenderSQL(d, o, NilBindings)

SpecChain == Init /\ [][NextChain]_vars

-----------------------------------------------------------------------------
(* Membership of an alias over a JSON list *)

\* The tag names tried as values and as list elements, the value lists, and
\* the conditions `tag in [...]` and `label in [...]`.
TagNames == {"foo", "foo/bar", "foobar", "fo_"}
TagValueLists == {<<LiteralValue(StrV(x))>> : x \in TagNames}
                 \cup {<<LiteralValue(StrV("foo")), LiteralValue(StrV("foobar"))>>}
TagConditions == {InCondition(FieldRef(alias), values) :
                     alias \in {"tag", "label"}, values \in TagValueLists}

\* The rows: the tags list holds up to two names.
TagRows ==
    {[tags |-> ListV(<<>>)]}
    \cup {[tags |-> ListV(<<StrV(a)>>)] : a \in TagNames}
    \cup {[tags |-> ListV(<<StrV(a), StrV(b)>>)] : a \in TagNames, b \in TagNames}

NewTagProgram ==
    /\ program = NoProgram
    /\ \E cond \in TagConditions : NewProgramFromCondition(cond)

NextTags ==
    \/ NewTagProgram
    \/ \E row \in TagRows : IsGranted(row, NilBindings)
    \/ \E d \in Dialects, o \in Offsets : RenderSQL(d, o, NilBindings)

SpecTags == Init /\ [][NextTags]_vars

-----------------------------------------------------------------------------
(* Comparisons with the field on either side *)

\* The fields compared, the value each is compared with (a literal of the
\* field's type or the parameter), and the two orders of the operands.
SwapFields == {"creator_id", "visibility", "pinned"}
SwapValues(name) == {LiteralFor(name), ParamRef("current_user_id")}
OperandPairs ==
    UNION {{<<FieldRef(name), value>> : value \in SwapValues(name)}
           \cup {<<value, FieldRef(name)>> : value \in SwapValues(name)} :
              name \in SwapFields}

\* Chains with a comparison whose field is on the right.
LeafOneLtCreator ==
    ComparisonCondition(LiteralValue(IntV(1)), CompareLt, FieldRef("creator_id"))
LeafUserIsCreator ==
    ComparisonCondition(ParamRef("current_user_id"), CompareEq, FieldRef("creator_id"))
SwapTrees ==
    {LogicalCondition(LogicalAnd,
         LogicalCondition(LogicalAnd, LeafOneLtCreator, LeafVisibleIn), LeafUserIsCreator),
     LogicalCondition(LogicalOr, LeafUserIsCreator,
         LogicalCondition(LogicalOr, LeafOneLtCreator, LeafPinned)),
     NotCondition(LeafOneLtCreator)}

\* Engine.Compile of the expression `left op right`.
CompileOperands(left, op, right) ==
    /\ program = NoProgram
    /\ stack = <<>>
    /\ ~compileCall.done
    /\ LET res == buildComparisonCondition(left, op, right)
       IN  /\ compileCall' = [done |-> TRUE, left |-> left, op |-> op, right |-> right,
                              err |-> res.err]
           /\ program' = res.cond
    /\ UNCHANGED <<stack, renderCall, grantCall, appendCall, rbac, buildCall, stdRole>>

NextSwap ==
    \/ \E pair \in OperandPairs, op \in ComparisonOperators :
           CompileOperands(pair[1], op, pair[2])
    \/ \E cond \in SwapTrees : NewProgramFromCondition(cond)
    \/ \E row \in Rows, b \in BoundChoices : IsGranted(row, b)
    \/ \E d \in Dialects, o \in Offsets, b \in BoundChoices : RenderSQL(d, o, b)

SpecSwap == Init /\ [][NextSwap]_vars

-----------------------------------------------------------------------------
(* Calls running at the same time on one Program *)

\* Most calls in flight on the Program.
MaxCalls == 3

\* The programs: chains whose children add args, fold, or nest.
CallTrees ==
    {LogicalCondition(LogicalAnd,
         LogicalCondition(LogicalAnd, LeafCreator, LeafVisibleIn), LeafPinned),
     LogicalCondition(LogicalOr, LeafPinned,
         LogicalCondition(LogicalAnd, LeafVisibleIn, LeafFalse)),
     LogicalCondition(LogicalAnd, LeafVisibleIn, NotCondition(LeafCreator))}
CallRows ==
    {[creator_id |-> IntV(1), visibility |-> StrV("PUBLIC"), pinned |-> BoolV(FALSE)],
     [creator_id |-> IntV(2), visibility |-> StrV("PRIVATE"), pinned |-> BoolV(TRUE)]}

\* In this specification renderCall holds the calls begun so far, in the
\* order they began, and the renderers they allocated.
CallsBegun == IF "calls" \in DOMAIN renderCall THEN renderCall.calls ELSE <<>>
Renderers  == IF "heap" \in DOMAIN renderCall THEN renderCall.heap
              ELSE [id \in 1..MaxCalls |-> newRenderer]

\* One renderer for every call.
SharedRenderer(call) == 1

\* Program.RenderSQL: `renderer := newRenderer(...)`, a renderer of its own
\* for the call.
RendererOf(call) == call

\* Program.RenderSQL begins: the renderer is allocated and the children of the
\* root are flattened.
BeginRenderSQL(dialect, offset) ==
    /\ program # NoProgram
    /\ Len(CallsBegun) < MaxCalls
    /\ LET call == Len(CallsBegun) + 1 IN
       renderCall' =
           [done  |-> FALSE,
            calls |-> Append(CallsBegun,
                          [kind |-> "render", pc |-> "children",
                           env |-> RenderEnv(dialect, offset, NilBindings),
                           renderer |-> RendererOf(call), next |-> 1,
                           rendered |-> <<>>]),
            heap  |-> [Renderers EXCEPT ![RendererOf(call)] = newRenderer]]
    /\ UNCHANGED <<stack, program, grantCall, appendCall, rbac, buildCall, compileCall, stdRole>>

\* renderLogicalCondition's loop, one child: the child is rendered on the
\* renderer of the call; an error ends the call with the zero Statement.
RenderChild(call) ==
    /\ call \in 1..Len(CallsBegun)
    /\ CallsBegun[call].kind = "render" /\ CallsBegun[call].pc = "children"
    /\ LET this      == CallsBegun[call]
           flattened == flattenLogicalConditions(program, program.Operator)
       IN  /\ this.next <= Len(flattened)
           /\ LET result == renderCondition(flattened[this.next],
                                            Renderers[this.renderer], this.env)
              IN  renderCall' =
                      [done  |-> FALSE,
                       calls |-> [CallsBegun EXCEPT ![call] =
                                     IF result.err # ""
                                     THEN [kind |-> "render", pc |-> "returned",
                                           env |-> this.env, stmt |-> ZeroStatement,
                                           err |-> result.err]
                                     ELSE [this EXCEPT
                                              !.next = @ + 1,
                                              !.rendered = Append(@, result.res)]],
                       heap  |-> [Renderers EXCEPT ![this.renderer] = result.r]]
    /\ UNCHANGED <<stack, program, grantCall, appendCall, rbac, buildCall, compileCall, stdRole>>

\* The end of renderLogicalCondition and of Render: the results are combined
\* and the Statement takes the args of the renderer.
ReturnRender(call) ==
    /\ call \in 1..Len(CallsBegun)
    /\ CallsBegun[call].kind = "render" /\ CallsBegun[call].pc = "children"
    /\ LET this   == CallsBegun[call]
           result == IF program.Operator = LogicalAnd THEN combineAndAll(this.rendered)
                     ELSE combineOrAll(this.rendered)
           stmt   == IF result.unsatisfiable THEN Statement(FalseSQL, <<>>, FALSE)
                     ELSE IF result.trivial THEN Statement(EmptySQL, <<>>, FALSE)
                     ELSE Statement(result.sql, Renderers[this.renderer].args, FALSE)
       IN  /\ this.next > Len(flattenLogicalConditions(program, program.Operator))
           /\ renderCall' =
                  [done  |-> FALSE,
                   calls |-> [CallsBegun EXCEPT ![call] =
                                 [kind |-> "render", pc |-> "returned", env |-> this.env,
                                  stmt |-> stmt, err |-> ""]],
                   heap  |-> Renderers]
    /\ UNCHANGED <<stack, program, grantCall, appendCall, rbac, buildCall, compileCall, stdRole>>

\* Program.IsGranted: the evaluator keeps nothing outside its own frames, so
\* the call is one step.
IsGrantedCall(row) ==
    /\ program # NoProgram
    /\ Len(CallsBegun) < MaxCalls
    /\ LET res == EvaluateCondition(program, EvalVars(row, NilBindings)) IN
       renderCall' =
           [done  |-> FALSE,
            calls |-> Append(CallsBegun,
                          [kind |-> "grant", pc |-> "returned", row |-> row,
                           val |-> res.val, err |-> res.err]),
            heap  |-> Renderers]
    /\ UNCHANGED <<stack, program, grantCall, appendCall, rbac, buildCall, compileCall, stdRole>>

NextCalls ==
    \/ \E cond \in CallTrees : NewProgramFromCondition(cond)
    \/ \E d \in {DialectSQLite, DialectPostgres}, o \in Offsets : BeginRenderSQL(d, o)
    \/ \E call \in 1..MaxCalls : RenderChild(call)
    \/ \E call \in 1..MaxCalls : ReturnRender(call)
    \/ \E row \in CallRows : IsGrantedCall(row)

SpecCalls == Init /\ [][NextCalls]_vars

-----------------------------------------------------------------------------
(* Compile hooks *)

\* Most options passed to NewEngine.
MaxHooks == 3

\* A nil Condition, and the hooks tried: the nil func; the hook of the engine
\* test, which drops the right side of an `a && b` filter and otherwise
\* returns nil; hooks that negate the condition and that restrict it to
\* pinned rows; a hook that rejects a negated condition and otherwise
\* returns nil.
NilCondition == [k |-> "nil"]
NilHook      == "nil"
HookOptions  == {NilHook, "dropRight", "negate", "andPinned", "rejectNot"}

\* hook(schema, filter, ast, cond)
CallHook(hook, cond) ==
    CASE hook = "dropRight" ->
           IF cond.k = "logical" /\ cond.Operator = LogicalAnd
           THEN [cond |-> cond.Left, err |-> ""]
           ELSE [cond |-> NilCondition, err |-> ""]
      [] hook = "negate" -> [cond |-> NotCondition(cond), err |-> ""]
      [] hook = "andPinned" ->
           [cond |-> LogicalCondition(LogicalAnd, cond, LeafPinned), err |-> ""]
      [] hook = "rejectNot" ->
           IF cond.k = "not" THEN [cond |-> NilCondition, err |-> "negation rejected"]
           ELSE [cond |-> NilCondition, err |-> ""]

\* The filters compiled, as the IR buildCondition returns for them.
HookTrees ==
    {LeafCreator,
     LogicalCondition(LogicalAnd, LeafSelfUser, LeafVisibleIn),
     NotCondition(LeafPinned),
     LogicalCondition(LogicalOr, LeafCreator, LeafPinned)}

\* In this specification compileCall holds, before Compile, the options
\* NewEngine was given so far and the engine's compileHooks.
OptionsGiven == IF "options" \in DOMAIN compileCall THEN compileCall.options ELSE <<>>
compileHooks == IF "hooks" \in DOMAIN compileCall THEN compileCall.hooks ELSE <<>>

\* The loop of Compile with every hook handed the IR as it was built.
RECURSIVE runHooksOnBuilt(_, _, _, _)
runHooksOnBuilt(hooks, i, cond, calls) ==
    IF i > Len(hooks) THEN [cond |-> cond, err |-> "", calls |-> calls]
    ELSE With(CallHook(hooks[i], IF calls = <<>> THEN cond ELSE calls[1].cond),
           LAMBDA next :
             With(Append(calls, [hook |-> hooks[i],
                                 cond |-> IF calls = <<>> THEN cond ELSE calls[1].cond]),
               LAMBDA called :
                 IF next.err # ""
                 THEN [cond |-> NilCondition, err |-> next.err, calls |-> called]
                 ELSE runHooksOnBuilt(hooks, i + 1,
                          IF next.cond # NilCondition THEN next.cond ELSE cond, called)))

\* The loop of Compile over e.compileHooks; calls records every call of a
\* hook and the condition it was handed.
RECURSIVE runHooks(_, _, _, _)
runHooks(hooks, i, cond, calls) ==
    IF i > Len(hooks) THEN [cond |-> cond, err |-> "", calls |-> calls]
    ELSE With(CallHook(hooks[i], cond),
           LAMBDA next :
             With(Append(calls, [hook |-> hooks[i], cond |-> cond]),
               LAMBDA called :
                 IF next.err # ""
                 THEN [cond |-> NilCondition, err |-> next.err, calls |-> called]
                 ELSE runHooks(hooks, i + 1,
                          IF next.cond # NilCondition THEN next.cond ELSE cond, called)))

\* WithCompileHook(hook), applied by NewEngine: a nil hook is not appended.
WithCompileHook(hook) ==
    /\ program = NoProgram
    /\ ~compileCall.done
    /\ Len(OptionsGiven) < MaxHooks
    /\ compileCall' = [done    |-> FALSE,
                       options |-> Append(OptionsGiven, hook),
                       hooks   |-> IF hook = NilHook THEN compileHooks
                                   ELSE Append(compileHooks, hook)]
    /\ UNCHANGED <<stack, program, renderCall, grantCall, appendCall, rbac, buildCall, stdRole>>

\* Engine.Compile(filter): the IR is built, the hooks run, and the Program
\* holds the last condition; an error of a hook returns no Program.
CompileFilter(built) ==
    /\ program = NoProgram
    /\ stack = <<>>
    /\ ~compileCall.done
    /\ LET res == runHooks(compileHooks, 1, built, <<>>)
       IN  /\ compileCall' = [done |-> TRUE, options |-> OptionsGiven,
                              hooks |-> compileHooks, built |-> built,
                              calls |-> res.calls, err |-> res.err]
           /\ program' = IF res.err # "" THEN NoProgram ELSE res.cond
    /\ UNCHANGED <<stack, renderCall, grantCall, appendCall, rbac, buildCall, stdRole>>

NextHooks ==
    \/ \E hook \in HookOptions : WithCompileHook(hook)
    \/ \E built \in HookTrees : CompileFilter(built)
    \/ \E d \in Dialects, b \in BoundChoices : RenderSQL(d, 0, b)

SpecHooks == Init /\ [][NextHooks]_vars

-----------------------------------------------------------------------------
(* One Role used by several goroutines (Role.init, Assign, Permit, Revoke, *)
(* Permissions)                                                            *)

\* The goroutines that call the Role and the calls each of them makes.
MaxThreads   == 2
MaxRoleCalls == 2
Threads == 1..MaxThreads

\* The permissions: read; all, a caller-defined Permission whose Match accepts
\* every request; and the zero Permission.
ZeroPermission  == "zero"
RolePermissions == {"read", "all"}
RoleMatch(assigned, requested) == assigned = requested \/ assigned = "all"

\* The calls: Assign(read), Assign(all), Revoke(read), Permit(zero),
\* Permit(read), Permissions().
RoleCalls ==
    {[op |-> "Assign", p |-> p] : p \in RolePermissions}
    \cup {[op |-> "Revoke", p |-> "read"]}
    \cup {[op |-> "Permit", p |-> p] : p \in {ZeroPermission, "read"}}
    \cup {[op |-> "Permissions", p |-> ZeroPermission]}

\* A pointer is the index of its object in the heap; 0 is nil.  A
\* sync.RWMutex is its writer flag and its count of readers.
Nil == 0
NewRWMutex == [w |-> FALSE, r |-> 0]
Idle == [pc |-> "idle", op |-> "none", p |-> ZeroPermission, calls |-> 0,
         path |-> "none", taken |-> 0, released |-> 0]

\* NewRole(id)
NewRole ==
    /\ stdRole = NoRole
    /\ stdRole' = [k |-> "role", lazy |-> FALSE, mutex |-> 1, permissions |-> 1,
                   mutexes |-> <<NewRWMutex>>, maps |-> <<{}>>,
                   threads |-> [t \in Threads |-> Idle], fatal |-> FALSE]
    /\ UNCHANGED <<stack, program, renderCall, grantCall, appendCall, rbac, buildCall,
                   compileCall>>

\* Role[T]{}: a Role embedded in the caller's own struct, mutex and
\* permissions nil.
ZeroRole ==
    /\ stdRole = NoRole
    /\ stdRole' = [k |-> "role", lazy |-> TRUE, mutex |-> Nil, permissions |-> Nil,
                   mutexes |-> <<>>, maps |-> <<>>,
                   threads |-> [t \in Threads |-> Idle], fatal |-> FALSE]
    /\ UNCHANGED <<stack, program, renderCall, grantCall, appendCall, rbac, buildCall,
                   compileCall>>

\* The process runs: a Role exists and no fatal error has ended the process.
Running == stdRole # NoRole /\ ~stdRole.fatal
At(t, pc) == Running /\ stdRole.threads[t].pc = pc

\* A goroutine calls an operation of the Role.  Permit returns false for the
\* zero Permission before anything else; every other call begins with init().
CallRole(t, call) ==
    /\ At(t, "idle")
    /\ stdRole.threads[t].calls < MaxRoleCalls
    /\ stdRole' = [stdRole EXCEPT !.threads[t] =
           [pc |-> IF call.op = "Permit" /\ call.p = ZeroPermission
                   THEN "idle" ELSE "init.mutex",
            op |-> call.op, p |-> call.p, calls |-> @.calls + 1,
            path |-> IF call.op = "Permit" /\ call.p = ZeroPermission
                     THEN "zero" ELSE "none",
            taken |-> 0, released |-> 0]]
    /\ UNCHANGED <<stack, program, renderCall, grantCall, appendCall, rbac, buildCall,
                   compileCall>>

\* init(): `if role.mutex == nil`
InitReadMutex(t) ==
    /\ At(t, "init.mutex")
    /\ stdRole' = [stdRole EXCEPT !.threads[t].pc =
           IF stdRole.mutex = Nil THEN "init.newMutex" ELSE "init.permissions"]
    /\ UNCHANGED <<stack, program, renderCall, grantCall, appendCall, rbac, buildCall,
                   compileCall>>

\* init(): `role.mutex = new(sync.RWMutex)`
InitNewMutex(t) ==
    /\ At(t, "init.newMutex")
    /\ stdRole' = [stdRole EXCEPT !.mutexes = Append(@, NewRWMutex),
                                  !.mutex = Len(stdRole.mutexes) + 1,
                                  !.threads[t].pc = "init.permissions"]
    /\ UNCHANGED <<stack, program, renderCall, grantCall, appendCall, rbac, buildCall,
                   compileCall>>

\* init(): `if role.permissions == nil`
InitReadPermissions(t) ==
    /\ At(t, "init.permissions")
    /\ stdRole' = [stdRole EXCEPT !.threads[t].pc =
           IF stdRole.permissions = Nil THEN "init.newPermissions" ELSE "lock"]
    /\ UNCHANGED <<stack, program, renderCall, grantCall, appendCall, rbac, buildCall,
                   compileCall>>

\* init(): `role.permissions = make(Permissions[T])`
InitNewPermissions(t) ==
    /\ At(t, "init.newPermissions")
    /\ stdRole' = [stdRole EXCEPT !.maps = Append(@, {}),
                                  !.permissions = Len(stdRole.maps) + 1,
                                  !.threads[t].pc = "lock"]
    /\ UNCHANGED <<stack, program, renderCall, grantCall, appendCall, rbac, buildCall,
                   compileCall>>

\* Assign and Revoke write the map, Permit and Permissions read it.
Writes(op) == op \in {"Assign", "Revoke"}

\* role.mutex.Lock() / role.mutex.RLock(): the mutex is the one the field
\* points to now; the goroutine waits while it cannot be taken.
LockMutex(t) ==
    /\ At(t, "lock")
    /\ LET m == stdRole.mutex IN
       IF Writes(stdRole.threads[t].op)
       THEN /\ ~stdRole.mutexes[m].w /\ stdRole.mutexes[m].r = 0
            /\ stdRole' = [stdRole EXCEPT !.mutexes[m].w = TRUE,
                                          !.threads[t].pc = "locked",
                                          !.threads[t].taken = @ + 1]
       ELSE /\ ~stdRole.mutexes[m].w
            /\ stdRole' = [stdRole EXCEPT !.mutexes[m].r = @ + 1,
                                          !.threads[t].pc = "locked",
                                          !.threads[t].taken = @ + 1]
    /\ UNCHANGED <<stack, program, renderCall, grantCall, appendCall, rbac, buildCall,
                   compileCall>>

\* The body between the lock and the unlock, on the map the field points to
\* now.  Permit takes the fast path when the ID is a key, else scans.
AccessMap(t) ==
    /\ At(t, "locked")
    /\ LET this == stdRole.threads[t]
           map  == stdRole.maps[stdRole.permissions]
       IN  stdRole' =
               [stdRole EXCEPT
                   !.maps[stdRole.permissions] =
                       CASE this.op = "Assign" -> @ \cup {this.p}
                         [] this.op = "Revoke" -> @ \ {this.p}
                         [] OTHER -> @,
                   !.threads[t].pc = "unlock",
                   !.threads[t].path =
                       CASE this.op # "Permit" -> "body"
                         [] this.p \in map -> "fast"
                         [] \E rp \in map : RoleMatch(rp, this.p) -> "scan"
                         [] OTHER -> "miss"]
    /\ UNCHANGED <<stack, program, renderCall, grantCall, appendCall, rbac, buildCall,
                   compileCall>>

\* role.mutex.Unlock() / role.mutex.RUnlock() on the mutex the field points to
\* now; unlocking a mutex that is not locked is a fatal error of the runtime.
UnlockMutex(t) ==
    /\ At(t, "unlock")
    /\ LET m == stdRole.mutex IN
       IF Writes(stdRole.threads[t].op)
       THEN IF ~stdRole.mutexes[m].w
            THEN stdRole' = [stdRole EXCEPT !.fatal = TRUE]
            ELSE stdRole' = [stdRole EXCEPT !.mutexes[m].w = FALSE,
                                            !.threads[t].pc = "idle",
                                            !.threads[t].released = @ + 1]
       ELSE IF stdRole.mutexes[m].r = 0
            THEN stdRole' = [stdRole EXCEPT !.fatal = TRUE]
            ELSE stdRole' = [stdRole EXCEPT !.mutexes[m].r = @ - 1,
                                            !.threads[t].pc = "idle",
                                            !.threads[t].released = @ + 1]
    /\ UNCHANGED <<stack, program, renderCall, grantCall, appendCall, rbac, buildCall,
                   compileCall>>

NextRole ==
    \/ NewRole
    \/ ZeroRole
    \/ \E t \in Threads, call \in RoleCalls : CallRole(t, call)
    \/ \E t \in Threads : InitReadMutex(t)
    \/ \E t \in Threads : InitNewMutex(t)
    \/ \E t \in Threads : InitReadPermissions(t)
    \/ \E t \in Threads : InitNewPermissions(t)
    \/ \E t \in Threads : LockMutex(t)
    \/ \E t \in Threads : AccessMap(t)
    \/ \E t \in Threads : UnlockMutex(t)

SpecRole == Init /\ [][NextRole]_vars

-----------------------------------------------------------------------------
(* Reading a Statement *)

\* The placeholders of a SQL text in left-to-right order.
RECURSIVE Placeholders(_)
RECURSIVE PlaceholdersOfParts(_)
PlaceholdersOfParts(parts) ==
    IF parts = <<>> THEN <<>>
    ELSE Placeholders(Head(parts)) \o PlaceholdersOfParts(Tail(parts))
Placeholders(sql) ==
    CASE sql.k = "cmp"  -> <<sql.ph>>
      [] sql.k = "fmt"  -> <<sql.ph>>
      [] sql.k = "template" ->
           [i \in 1..Cardinality({j \in 1..Len(sql.parts) : sql.parts[j].tok = "ph"}) |->
               SelectSeq(sql.parts, LAMBDA piece : piece.tok = "ph")[i].ph]
      [] sql.k = "in"   -> sql.phs
      [] sql.k = "join" -> PlaceholdersOfParts(sql.parts)
      [] sql.k = "not"  -> Placeholders(sql.arg)
      [] sql.k = "paren" -> Placeholders(sql.arg)
      [] OTHER -> <<>>

\* The text of a placeholder and of a SQL fragment: what the caller sees.
PlaceholderText(ph) == [txt |-> ph.txt, n |-> ph.n]
RECURSIVE SQLText(_)
SQLText(sql) ==
    CASE sql.k = "cmp"  -> [sql EXCEPT !.ph = PlaceholderText(sql.ph)]
      [] sql.k = "fmt"  -> [sql EXCEPT !.ph = PlaceholderText(sql.ph)]
      [] sql.k = "template" ->
           [sql EXCEPT !.parts = [i \in 1..Len(sql.parts) |->
               IF sql.parts[i].tok = "ph"
               THEN [tok |-> "ph", ph |-> PlaceholderText(sql.parts[i].ph)]
               ELSE sql.parts[i]]]
      [] sql.k = "in"   -> [sql EXCEPT !.phs = [i \in 1..Len(sql.phs) |-> PlaceholderText(sql.phs[i])]]
      [] sql.k = "join" -> [sql EXCEPT !.parts = [i \in 1..Len(sql.parts) |-> SQLText(sql.parts[i])]]
      [] sql.k = "not"  -> [sql EXCEPT !.arg = SQLText(sql.arg)]
      [] sql.k = "paren" -> [sql EXCEPT !.arg = SQLText(sql.arg)]
      [] OTHER -> sql

\* Two render outcomes a caller cannot tell apart.
SameOutcome(a, b) ==
    /\ a.err = b.err
    /\ SQLText(a.stmt.SQL) = SQLText(b.stmt.SQL)
    /\ a.stmt.Args = b.stmt.Args
    /\ a.stmt.ArgsNil = b.stmt.ArgsNil

TrivialStatement == Statement(EmptySQL, <<>>, FALSE)
UnsatStatement   == Statement(FalseSQL, <<>>, FALSE)

\* cond, rendered alone under env, gives the trivial / the unsatisfiable statement.
RendersTrivial(cond, env) ==
    Render(cond, env).err = "" /\ Render(cond, env).stmt.SQL = EmptySQL
RendersUnsat(cond, env) ==
    Render(cond, env).err = "" /\ Render(cond, env).stmt.SQL = FalseSQL

RenderOutcome == [stmt |-> renderCall.stmt, err |-> renderCall.err]
RenderOK == renderCall.done /\ renderCall.err = ""

-----------------------------------------------------------------------------
(* What the database computes for a Statement used as a WHERE clause *)

\* A bool is stored and compared as 0/1.
SQLScalar(v) == IF v.t = "bool" THEN IntV(IF v.v THEN 1 ELSE 0) ELSE v

\* The arg a placeholder of stmt is bound to when the caller passes
\* stmt.Args after the offset args of the surrounding query: the i-th "?"
\* takes the i-th arg, "$N" takes the arg numbered N.
BoundArg(stmt, env, ph) ==
    LET phs == Placeholders(stmt.SQL)
        pos == CHOOSE i \in 1..Len(phs) : phs[i].alloc = ph.alloc
        idx == IF ph.txt = "?" THEN pos ELSE ph.n - env.placeholderOffset
    IN  IF idx \in 1..Len(stmt.Args)
        THEN [v |-> SQLScalar(stmt.Args[idx]), err |-> ""]
        ELSE [v |-> NilV, err |-> "no arg for placeholder"]

\* column op arg on a non-null column; operands of different types are an
\* error of the database.
SQLCompare(op, colv, arg) ==
    IF arg.err # "" THEN [val |-> FALSE, err |-> arg.err]
    ELSE IF colv.t # arg.v.t THEN [val |-> FALSE, err |-> "operand types differ"]
    ELSE IF colv.t = "string"
         THEN [val |-> numericCompare(op, StrRank(colv.v), StrRank(arg.v.v)), err |-> ""]
         ELSE [val |-> numericCompare(op, colv.v, arg.v.v), err |-> ""]

RECURSIVE SQLEval(_, _, _, _)
RECURSIVE SQLEvalJoin(_, _, _, _, _, _)
SQLEvalJoin(op, parts, i, stmt, env, row) ==
    IF i > Len(parts) THEN [val |-> (op = "AND"), err |-> ""]
    ELSE LET head == SQLEval(parts[i], stmt, env, row)
             rest == SQLEvalJoin(op, parts, i + 1, stmt, env, row)
         IN  IF head.err # "" THEN head
             ELSE IF rest.err # "" THEN rest
             ELSE [val |-> IF op = "AND" THEN head.val /\ rest.val
                                          ELSE head.val \/ rest.val,
                   err |-> ""]
SQLEval(sql, stmt, env, row) ==
    CASE sql.k = "empty"  -> [val |-> TRUE, err |-> ""]
      [] sql.k = "false"  -> [val |-> FALSE, err |-> ""]
      [] sql.k = "isnull" -> [val |-> sql.neg, err |-> ""]
      [] sql.k = "cmp"    ->
           SQLCompare(sql.op, SQLScalar(row[sql.col.name]), BoundArg(stmt, env, sql.ph))
      [] sql.k = "in"     ->
           LET colv == SQLScalar(row[sql.col.name])
               hits == [i \in 1..Len(sql.phs) |->
                           SQLCompare(CompareEq, colv, BoundArg(stmt, env, sql.phs[i]))]
           IN  IF \E i \in 1..Len(hits) : hits[i].err # ""
               THEN [val |-> FALSE, err |-> "operand types differ"]
               ELSE [val |-> \E i \in 1..Len(hits) : hits[i].val, err |-> ""]
      [] sql.k = "join"   -> SQLEvalJoin(sql.op, sql.parts, 1, stmt, env, row)
      [] sql.k = "not"    ->
           LET inner == SQLEval(sql.arg, stmt, env, row) IN
           IF inner.err # "" THEN inner ELSE [val |-> ~inner.val, err |-> ""]

\* The WHERE clause stmt selects row.
SQLHolds(stmt, env, row) ==
    LET res == SQLEval(stmt.SQL, stmt, env, row) IN res.err = "" /\ res.val

-----------------------------------------------------------------------------
(* Claims about the renderer *)

\* C1: for every successful render the number of placeholders in
\* Statement.SQL equals len(Args) (NamedArgs is never filled), and for
\* Postgres the numbers N of the $N are exactly offset+1 .. offset+len(Args).
C1_PlaceholderArgAgreement ==
    RenderOK =>
        LET phs  == Placeholders(renderCall.stmt.SQL)
            args == renderCall.stmt.Args
            off  == renderCall.env.placeholderOffset
        IN  /\ Len(phs) = Len(args)
            /\ renderCall.env.dialect = DialectPostgres =>
                 {phs[i].n : i \in 1..Len(phs)} = (off + 1)..(off + Len(args))

\* C2: for every successful render no arg is dropped or reordered: the i-th
\* placeholder from the left is the one allocated for Args[i], and for
\* Postgres it is numbered offset+i.
C2_ArgOrderMatchesPlaceholders ==
    RenderOK =>
        LET phs  == Placeholders(renderCall.stmt.SQL)
            args == renderCall.stmt.Args
            off  == renderCall.env.placeholderOffset
        IN  /\ \A k \in 1..Len(args) : \E i \in 1..Len(phs) : phs[i].alloc = k
            /\ \A i \in 1..Len(phs) :
                 /\ phs[i].alloc = i
                 /\ renderCall.env.dialect = DialectPostgres => phs[i].n = off + i

\* C7: render(AND(T, X)) and render(OR(U, X)) are the same Statement as
\* render(X), in either operand order, when T renders trivial and U renders
\* unsatisfiable.
C7_IdentityLaws ==
    (renderCall.done /\ program.k = "logical") =>
        LET env == renderCall.env
            l   == program.Left
            r   == program.Right
        IN  /\ (program.Operator = LogicalAnd /\ RendersTrivial(l, env))
                   => SameOutcome(RenderOutcome, Render(r, env))
            /\ (program.Operator = LogicalAnd /\ RendersTrivial(r, env))
                   => SameOutcome(RenderOutcome, Render(l, env))
            /\ (program.Operator = LogicalOr /\ RendersUnsat(l, env))
                   => SameOutcome(RenderOutcome, Render(r, env))
            /\ (program.Operator = LogicalOr /\ RendersUnsat(r, env))
                   => SameOutcome(RenderOutcome, Render(l, env))

\* The operands of the program's chain of same-operator Logical nodes.
ChainOperands == flattenLogicalConditions(program, program.Operator)

\* C8 as stated: for any X, whether or not X itself renders, AND with an
\* unsatisfiable operand renders the unsatisfiable statement and OR with a
\* trivial operand renders the trivial statement.
C8_AnnihilatorForAnyOperand ==
    (renderCall.done /\ program.k = "logical") =>
        LET env == renderCall.env IN
        /\ (program.Operator = LogicalAnd
              /\ \E i \in 1..Len(ChainOperands) : RendersUnsat(ChainOperands[i], env))
             => renderCall.err = "" /\ renderCall.stmt = UnsatStatement
        /\ (program.Operator = LogicalOr
              /\ \E i \in 1..Len(ChainOperands) : RendersTrivial(ChainOperands[i], env))
             => renderCall.err = "" /\ renderCall.stmt = TrivialStatement

\* C8 (amended): whenever the render succeeds, AND with an operand that
\* renders unsatisfiable gives the unsatisfiable statement (SQL 1 = 0, no
\* args) and OR with an operand that renders trivial gives the trivial
\* statement (empty SQL, no args), wherever the operand sits in the chain.
C8_Annihilator ==
    (RenderOK /\ program.k = "logical") =>
        LET env == renderCall.env IN
        /\ (program.Operator = LogicalAnd
              /\ \E i \in 1..Len(ChainOperands) : RendersUnsat(ChainOperands[i], env))
             => renderCall.stmt = UnsatStatement
        /\ (program.Operator = LogicalOr
              /\ \E i \in 1..Len(ChainOperands) : RendersTrivial(ChainOperands[i], env))
             => renderCall.stmt = TrivialStatement

\* A successful render of a three-operand OR chain with a trivial operand
\* and an operand that put a placeholder into its SQL.
C8_Witness ==
    /\ RenderOK
    /\ program.k = "logical"
    /\ program.Operator = LogicalOr
    /\ Len(ChainOperands) >= 3
    /\ \E i \in 1..Len(ChainOperands) : RendersTrivial(ChainOperands[i], renderCall.env)
    /\ \E i \in 1..Len(ChainOperands) :
          Placeholders(Render(ChainOperands[i], renderCall.env).stmt.SQL) # <<>>

\* C9: at the outermost Render a trivial result is Statement{"", []} and an
\* unsatisfiable one Statement{"1 = 0", []}, Args empty and non-nil whatever
\* the sub-renders accumulated; Constant(true) renders trivial and
\* Constant(false) renders 1 = 0.
C9_FoldedStatementHasNoArgs ==
    RenderOK =>
        LET result == renderCondition(program, newRenderer, renderCall.env).res IN
        /\ result.trivial => renderCall.stmt = TrivialStatement
        /\ result.unsatisfiable => renderCall.stmt = UnsatStatement
        /\ renderCall.stmt.SQL \in {EmptySQL, FalseSQL}
             => renderCall.stmt.Args = <<>> /\ ~renderCall.stmt.ArgsNil
        /\ program = ConstantCondition(TRUE) => renderCall.stmt = TrivialStatement
        /\ program = ConstantCondition(FALSE) => renderCall.stmt = UnsatStatement

\* A render folded to trivial after its sub-renders had accumulated args.
C9_Witness ==
    /\ RenderOK
    /\ LET result == renderCondition(program, newRenderer, renderCall.env) IN
       result.res.trivial /\ Len(result.r.args) > 0

-----------------------------------------------------------------------------
(* Claims about the evaluator and the renderer together *)

\* C6: for a condition built from constants, AND, OR, NOT, comparisons and
\* in over int, string and bool scalar fields against literals or bound
\* parameters, and a row whose fields are non-null and of their declared
\* types, whenever the render and the evaluation both succeed IsGranted
\* returns true exactly when the rendered SQL predicate holds on that row; a
\* trivial statement goes with true on every row and an unsatisfiable one
\* with false on every row.
C6_RenderEvalParity ==
    grantCall.done =>
        \A d \in Dialects, o \in Offsets :
            LET env == RenderEnv(d, o, grantCall.bindings)
                res == Render(program, env)
            IN  (res.err = "" /\ grantCall.err = "") =>
                    /\ grantCall.val <=> SQLHolds(res.stmt, env, grantCall.row)
                    /\ res.stmt.SQL = EmptySQL => grantCall.val
                    /\ res.stmt.SQL = FalseSQL => ~grantCall.val

\* C6, its last sentence: the render and the evaluation fail on the same
\* inputs.
C6_SameFailures ==
    grantCall.done =>
        \A d \in Dialects, o \in Offsets :
            LET res == Render(program, RenderEnv(d, o, grantCall.bindings))
            IN  (res.err = "") <=> (grantCall.err = "")

\* C6 for the Postgres dialect alone, where a placeholder names its arg.
C6_ParityPostgres ==
    grantCall.done =>
        \A o \in Offsets :
            LET env == RenderEnv(DialectPostgres, o, grantCall.bindings)
                res == Render(program, env)
            IN  (res.err = "" /\ grantCall.err = "") =>
                    (grantCall.val <=> SQLHolds(res.stmt, env, grantCall.row))

\* C10: compose offset law for Postgres.  After each step of
\* AppendConditions the placeholders in the collected where-fragments are
\* exactly $1 .. $len(args), one per arg; the fragment a step adds numbers its
\* placeholders from the previous len(args) + 1 upward; and a filter that
\* renders to empty SQL adds neither a fragment nor args.
C10_ComposeOffsetLaw ==
    (appendCall.done /\ appendCall.dialect = DialectPostgres) =>
        \A k \in 1..Len(appendCall.steps) :
            LET prev  == IF k = 1 THEN [where |-> <<>>, args |-> <<>>]
                         ELSE appendCall.steps[k - 1]
                step  == appendCall.steps[k]
                phs   == PlaceholdersOfParts(step.where)
                added == IF Len(step.where) > Len(prev.where)
                         THEN Placeholders(step.where[Len(step.where)]) ELSE <<>>
                alone == Render(appendCall.filters[k],
                                RenderEnv(DialectPostgres, Len(prev.args), NilBindings))
            IN  /\ Len(phs) = Len(step.args)
                /\ {phs[i].n : i \in 1..Len(phs)} = 1..Len(step.args)
                /\ {added[i].n : i \in 1..Len(added)} =
                       (Len(prev.args) + 1)..Len(step.args)
                /\ alone.stmt.SQL = EmptySQL => step = prev

-----------------------------------------------------------------------------
(* Claims about the composer *)

\* The roles reachable from the roles in S through parent edges, S included.
RECURSIVE Reach(_, _)
Reach(g, S) ==
    IF \A x \in S : g.parents[x] \subseteq S THEN S
    ELSE Reach(g, S \cup UNION {g.parents[x] : x \in S})

\* The pairs <<role, permission ID>> of the assignments a role holds, own and
\* inherited, and those among them that match a requested permission.
Held(g, role) ==
    {s \in Reach(g, {role}) \X PermIDs : g.permissions[s[1]][s[2]] # NoPermission}
Matching(g, role, requested) ==
    {s \in Held(g, role) : Match(g.permissions[s[1]][s[2]], requested)}
HasAll(g, role, required) ==
    \A j \in 1..Len(required) : Matching(g, role, required[j]) # {}

\* The filter of an assigned permission holds on a row; no filter counts as
\* true.
VariantHolds(p, row) ==
    IF p.k = "filter" THEN EvaluateCondition(CompileExpr(p.Filter).cond, row).val
    ELSE TRUE

C4_ComposedCondition ==
    (buildCall.done /\ buildCall.err = "") =>
        LET roles    == buildCall.roles
            required == buildCall.permissions
        IN  /\ \A row \in Rows :
                   LET got == EvaluateCondition(buildCall.program, row) IN
                   /\ got.err = ""
                   /\ got.val <=>
                        \E i \in 1..Len(roles) : \A j \in 1..Len(required) :
                            \E s \in Matching(rbac, roles[i], required[j]) :
                                VariantHolds(rbac.permissions[s[1]][s[2]], row)
            /\ (\E i \in 1..Len(roles) : \A j \in 1..Len(required) :
                    \E s \in Matching(rbac, roles[i], required[j]) :
                        rbac.permissions[s[1]][s[2]].k = "std")
                 => \A d \in Dialects :
                        Render(buildCall.program, RenderEnv(d, 0, NilBindings))
                            = [stmt |-> TrivialStatement, err |-> ""]

\* C5: for every role queried during one build, the permissions the cache
\* returns for it are exactly the directly assigned permissions of the roles
\* reachable from it through parent edges, itself included, each reachable
\* role counted once.
C5_ClosureIsReachability ==
    (buildCall.done /\ buildCall.err = "") =>
        \A i \in 1..Len(buildCall.queried) :
            LET role    == buildCall.queried[i].role
                perms   == buildCall.queried[i].perms
            IN  /\ Len(perms) = Cardinality(Held(rbac, role))
                /\ SeqRange(perms) =
                       {rbac.permissions[s[1]][s[2]] : s \in Held(rbac, role)}

\* C5 for the walk of collectMatchingPermissions alone: from every role and
\* for every requested permission the walk returns exactly the matching
\* permissions of the reachable roles, one per role.
C5_WalkIsReachability ==
    \A role \in RoleIDs, id \in PermIDs, ord \in MapOrders :
        LET got == collectMatchingPermissions(rbac, role, StdPermission(id), ord)
            hit == Matching(rbac, role, StdPermission(id))
        IN  /\ got.err = ""
            /\ Len(got.result) = Cardinality(hit)
            /\ SeqRange(got.result) = {rbac.permissions[s[1]][s[2]] : s \in hit}

-----------------------------------------------------------------------------
(* Errors of a render *)

\* Every node of a condition tree.
RECURSIVE SubConditions(_)
SubConditions(cond) ==
    {cond} \cup
    CASE cond.k = "logical" -> SubConditions(cond.Left) \cup SubConditions(cond.Right)
      [] cond.k = "not"     -> SubConditions(cond.Expr)
      [] OTHER -> {}

\* C11: when a node of the condition tree fails to render (alone, under the
\* same options and bindings), wherever it sits in the tree, RenderSQL returns
\* an error; and every error comes with the zero Statement: empty SQL, nil
\* Args, nil NamedArgs, never the SQL or the args built before the failure.
C11_FailureGivesZeroStatement ==
    renderCall.done =>
        /\ (\E node \in SubConditions(program) :
                renderCondition(node, newRenderer, renderCall.env).err # "")
               => renderCall.err # ""
        /\ renderCall.err # "" => renderCall.stmt = ZeroStatement

\* A failing node under an OR whose other child is trivial, the failure
\* coming after an arg was added to the renderer.
C11_Witness ==
    /\ renderCall.done
    /\ renderCall.err # ""
    /\ program.k = "logical" /\ program.Operator = LogicalOr
    /\ program.Left = LeafTrue
    /\ renderCondition(program, newRenderer, renderCall.env).r.args # <<>>

-----------------------------------------------------------------------------
(* Errors while composing *)

\* The permissions among perms that match a requested one.
MatchingIn(perms, requested) == SelectSeq(perms, LAMBDA assigned : Match(assigned, requested))

\* A permission whose CEL filter Engine.Compile rejects.
FilterFails(p) == p.k = "filter" /\ CompileExpr(p.Filter).err # ""

\* A listed role the RBAC lookup fails for.
LookupFails(roleID) == Get(rbac, roleID, "asc").err # ""

\* A queried role that has a match for every required permission, one of
\* the matches carrying a filter that does not compile.
CompileFails(q) ==
    /\ \A i \in 1..Len(buildCall.permissions) :
           Len(MatchingIn(q.perms, buildCall.permissions[i])) > 0
    /\ \E i \in 1..Len(buildCall.permissions) :
           \E j \in 1..Len(MatchingIn(q.perms, buildCall.permissions[i])) :
               FilterFails(MatchingIn(q.perms, buildCall.permissions[i])[j])

\* C12: when the RBAC lookup of a listed role fails, or the filter of a
\* matching permission of a role does not compile (an empty filter string
\* included), NewFilterProgram returns an error; and it never returns a
\* Program together with an error.
C12_ComposeErrorsAbort ==
    buildCall.done =>
        /\ (\E i \in 1..Len(buildCall.roles) : LookupFails(buildCall.roles[i]))
               => buildCall.err # "" /\ buildCall.program = NoProgram
        /\ (\E i \in 1..Len(buildCall.queried) : CompileFails(buildCall.queried[i]))
               => buildCall.err # "" /\ buildCall.program = NoProgram
        /\ buildCall.err # "" => buildCall.program = NoProgram

\* The part of C12 the code keeps: a filter that does not compile aborts the
\* composition, and an error never comes with a Program.
C12_CompileErrorsAbort ==
    buildCall.done =>
        /\ (\E i \in 1..Len(buildCall.queried) : CompileFails(buildCall.queried[i]))
               => buildCall.err # "" /\ buildCall.program = NoProgram
        /\ buildCall.err # "" => buildCall.program = NoProgram

\* A composition aborted by an empty filter.
C12_CompileErrorReached ==
    /\ buildCall.done
    /\ buildCall.err = "filter expression is empty"
    /\ Len(buildCall.roles) = 2

\* A composition over a role that was never added returns a program built
\* from the remaining role.
C12_LookupErrorSwallowed ==
    /\ buildCall.done
    /\ buildCall.roles = <<"ghost", "role-a">>
    /\ buildCall.err = ""
    /\ buildCall.program # NoProgram
    /\ buildCall.program # ConstantCondition(FALSE)

-----------------------------------------------------------------------------
(* Aliases *)

\* The field a name stands for: the AliasFor of a virtual alias, the name
\* itself otherwise.
AliasTarget(name) ==
    IF SchemaField(name).ok /\ SchemaField(name).field.Kind = FieldKindVirtualAlias
    THEN SchemaField(name).field.AliasFor
    ELSE name

\* A value expression, a template and a condition written with the targets
\* in place of the aliases.
DirectValue(expr) ==
    CASE expr.k = "field" -> FieldRef(AliasTarget(expr.Name))
      [] expr.k = "fn" ->
           FunctionValue(expr.Name,
               [i \in 1..Len(expr.Args) |->
                   IF expr.Args[i].k = "field"
                   THEN FieldRef(AliasTarget(expr.Args[i].Name)) ELSE expr.Args[i]])
      [] OTHER -> expr
DirectTemplate(tpl) ==
    [i \in 1..Len(tpl) |->
        IF tpl[i].tok = "field" THEN ColumnSlot(AliasTarget(tpl[i].name)) ELSE tpl[i]]
RECURSIVE Direct(_)
Direct(cond) ==
    CASE cond.k = "logical" ->
           LogicalCondition(cond.Operator, Direct(cond.Left), Direct(cond.Right))
      [] cond.k = "not" -> NotCondition(Direct(cond.Expr))
      [] cond.k = "cmp" ->
           ComparisonCondition(DirectValue(cond.Left), cond.Operator, DirectValue(cond.Right))
      [] cond.k = "in" -> InCondition(DirectValue(cond.Left), cond.Values)
      [] cond.k \in {"pred", "elemin", "contains", "startsWith", "endsWith", "compr"} ->
           [cond EXCEPT !.Field = AliasTarget(@)]
      [] cond.k = "sqlpred" ->
           [cond EXCEPT !.SQL = DialectSQL(DirectTemplate(@.Default), DirectTemplate(@.SQLite),
                                           DirectTemplate(@.MySQL), DirectTemplate(@.Postgres))]
      [] OTHER -> cond

\* The condition has an `in` on the alias named tag.
HasTagIn(cond) ==
    \E node \in SubConditions(cond) :
        node.k = "in" /\ node.Left.k = "field" /\ node.Left.Name = "tag"

\* The kinds of node that name an alias in cond.
AliasKinds(cond) ==
    {node.k : node \in {n \in SubConditions(cond) : n.k \notin {"logical", "not"} /\ Direct(n) # n}}

\* C13: a condition written with aliases renders to the same outcome (same
\* SQL, same args, or an error in both cases) as the condition written with
\* the fields the aliases stand for, unless it has an `in` on the alias named
\* tag.
C13_AliasRendersAsTarget ==
    renderCall.done /\ ~HasTagIn(program) =>
        LET direct == Render(Direct(program), renderCall.env) IN
        /\ (renderCall.err # "") <=> (direct.err # "")
        /\ renderCall.err = "" =>
               /\ SQLText(renderCall.stmt.SQL) = SQLText(direct.stmt.SQL)
               /\ renderCall.stmt.Args = direct.stmt.Args

\* The same for the kinds of condition that resolve the alias before
\* rendering: field predicate, comparison, size(), element-in, comprehension
\* and {{alias}} in an sql() template.
C13_ResolvedKindsRenderAsTarget ==
    renderCall.done /\ AliasKinds(program) \subseteq {"pred", "cmp", "elemin", "compr", "sqlpred"} =>
        LET direct == Render(Direct(program), renderCall.env) IN
        /\ (renderCall.err # "") <=> (direct.err # "")
        /\ renderCall.err = "" =>
               /\ SQLText(renderCall.stmt.SQL) = SQLText(direct.stmt.SQL)
               /\ renderCall.stmt.Args = direct.stmt.Args

\* owner in [1] fails where creator_id in [1] renders.
C13_ScalarAliasInFails ==
    /\ renderCall.done
    /\ program = LeafOwnerIn
    /\ renderCall.err = "alias does not support IN()"
    /\ Render(Direct(program), renderCall.env).err = ""

\* vis.contains("PUB") renders a LIKE on the alias's own, empty, column
\* where visibility.contains("PUB") renders it on t.visibility.
C13_StringMatchKeepsAlias ==
    /\ renderCall.done
    /\ program = LeafVisContains
    /\ renderCall.err = ""
    /\ renderCall.stmt.SQL.col.name = ""
    /\ Render(Direct(program), renderCall.env).stmt.SQL.col.name = "visibility"

\* label in ["work"] renders where tags in ["work"] fails.
C13_ListAliasInRenders ==
    /\ renderCall.done
    /\ program = LeafLabelIn
    /\ renderCall.err = ""
    /\ Render(Direct(program), renderCall.env).err # ""

-----------------------------------------------------------------------------
(* The operator allow-list *)

\* The allow-list of the field a compiled comparison has on its left.
ComparedOps == SchemaField(compileCall.name).field.AllowedComparisonOps

\* C14 as stated: compiling a comparison whose left operand is a schema field
\* fails unless the operator is in the field's AllowedComparisonOps.
C14_OperatorMustBeListed ==
    compileCall.done /\ SchemaField(compileCall.name).ok =>
        (compileCall.op \notin ComparedOps.keys => compileCall.err # "")

\* C14: compiling a comparison whose left operand is a schema field fails
\* exactly when the field has a non-nil allow-list without the operator as a
\* key (an empty, non-nil allow-list rejects all six operators, a nil one
\* admits all six); when it succeeds the program is the comparison.
C14_AllowListDecides ==
    compileCall.done /\ SchemaField(compileCall.name).ok =>
        /\ compileCall.err # "" <=>
               (~ComparedOps.isNil /\ compileCall.op \notin ComparedOps.keys)
        /\ compileCall.err # "" => program = NoProgram
        /\ compileCall.err = "" =>
               program = ComparisonCondition(FieldRef(compileCall.name), compileCall.op,
                                             LiteralFor(compileCall.name))

\* A field with an empty allow-list rejects an operator.
C14_Witness ==
    /\ compileCall.done
    /\ SchemaField(compileCall.name).ok
    /\ ~ComparedOps.isNil /\ ComparedOps.keys = {}
    /\ compileCall.op = CompareEq
    /\ compileCall.err # ""

\* A field with a nil allow-list admits an ordering operator.
C14_NilAllowListAdmits ==
    /\ compileCall.done
    /\ compileCall.name = "tag"
    /\ ComparedOps.isNil
    /\ compileCall.op = CompareLt
    /\ compileCall.err = ""

-----------------------------------------------------------------------------
(* sql() predicates *)

\* The number of ? in the first i pieces of a template.
ArgSlots(tpl, i) == Cardinality({j \in 1..i : tpl[j].tok = "arg"})

\* The template a predicate is rendered from in the current render call.
SelectedTemplate(node) == template(node.SQL, renderCall.env.dialect)

\* The placeholder of the k-th arg added by a render call.
AllocatedPlaceholder(k) ==
    IF renderCall.env.dialect = DialectPostgres
    THEN [txt |-> "$", n |-> renderCall.env.placeholderOffset + k, alloc |-> k]
    ELSE [txt |-> "?", n |-> 0, alloc |-> k]

\* What piece i of the selected template must become.
ExpectedPiece(tpl, i) ==
    CASE tpl[i].tok = "arg" -> [tok |-> "ph", ph |-> AllocatedPlaceholder(ArgSlots(tpl, i))]
      [] tpl[i].tok = "field" ->
           [tok |-> "col",
            col |-> columnExpr(SchemaField(AliasTarget(tpl[i].name)).field,
                               renderCall.env.dialect)]
      [] OTHER -> tpl[i]

\* C15: a render fails, with the zero Statement, whenever the tree has an
\* sql() predicate whose selected template has a number of ? that differs
\* from the number of its args; and a successful render of an sql() predicate
\* has the k-th ? replaced by the placeholder allocated for the k-th arg,
\* every {{field}} replaced by the column expression of the field, and the
\* values of the args, in order, as Args.
C15_PlaceholderCountMustMatch ==
    renderCall.done =>
        /\ (\E node \in SubConditions(program) :
               /\ node.k = "sqlpred"
               /\ ArgSlots(SelectedTemplate(node), Len(SelectedTemplate(node))) # Len(node.Args))
               => renderCall.err # "" /\ renderCall.stmt = ZeroStatement
        /\ program.k = "sqlpred" /\ renderCall.err = "" =>
               LET tpl == SelectedTemplate(program) IN
               /\ renderCall.stmt.SQL =
                      TemplateSQL([i \in 1..Len(tpl) |-> ExpectedPiece(tpl, i)])
               /\ renderCall.stmt.Args =
                      [k \in 1..Len(program.Args) |->
                          resolveValue(program.Args[k], renderCall.env).v]

\* A template with fewer ? than args was rendered, and the render failed.
C15_Witness ==
    /\ renderCall.done
    /\ program = PredTooManyArgs
    /\ renderCall.err = "template has fewer '?' than args"

\* The other cases: more ? than args, ? with no args, and matching counts
\* with two args on Postgres at a non-zero offset.
C15_MoreSlotsReached ==
    renderCall.done /\ program = PredTooFewArgs
    /\ renderCall.err = "template has more '?' than args"
C15_NoArgsReached ==
    renderCall.done /\ program = PredNeedsArg
    /\ renderCall.err = "template contains '?' but no args were provided"
C15_MatchReached ==
    /\ renderCall.done /\ program = PredBetween /\ renderCall.err = ""
    /\ renderCall.env.dialect = DialectPostgres
    /\ renderCall.env.placeholderOffset = MaxOffset
    /\ Len(renderCall.stmt.Args) = 2


\* The sql() predicates of a tree whose selected template is empty or blank.
BlankPredicates(cond) ==
    {node \in SubConditions(cond) : node.k = "sqlpred" /\ IsBlank(SelectedTemplate(node))}

\* The tree with constant true in place of those predicates.
RECURSIVE BlankAsTrue(_)
BlankAsTrue(cond) ==
    CASE cond.k = "logical" ->
           LogicalCondition(cond.Operator, BlankAsTrue(cond.Left), BlankAsTrue(cond.Right))
      [] cond.k = "not" -> NotCondition(BlankAsTrue(cond.Expr))
      [] cond.k = "sqlpred" /\ IsBlank(SelectedTemplate(cond)) -> ConstantCondition(TRUE)
      [] OTHER -> cond

\* C16: an sql() predicate whose template for the dialect, after the fall
\* back to Default, is empty or blank renders as trivial: alone it gives the
\* empty SQL with no args and no error, and inside AND/OR/NOT the render is
\* that of the tree with constant true in its place.
C16_BlankTemplateIsTrivial ==
    renderCall.done /\ BlankPredicates(program) # {} =>
        /\ program.k = "sqlpred" =>
               renderCall.err = "" /\ renderCall.stmt = TrivialStatement
        /\ SameOutcome(RenderOutcome, Render(BlankAsTrue(program), renderCall.env))

\* A predicate with a Postgres template only, rendered for sqlite: the
\* template falls back to the empty Default and the render fails.
C16_BlankTemplateFails ==
    /\ renderCall.done
    /\ program = PredPostgresOnly
    /\ renderCall.env.dialect = DialectSQLite
    /\ renderCall.err = "missing SQL template for predicate"
    /\ renderCall.stmt = ZeroStatement

-----------------------------------------------------------------------------
(* Flattening *)

\* The leaves of the tree of Logical nodes with operator op that cond is the
\* root of, in order; a node with the other operator is one leaf.
RECURSIVE InOrderLeaves(_, _)
InOrderLeaves(cond, op) ==
    IF cond.k = "logical" /\ cond.Operator = op
    THEN InOrderLeaves(cond.Left, op) \o InOrderLeaves(cond.Right, op)
    ELSE <<cond>>

\* A leaf rendered alone, its placeholders numbered after `before` args.
LeafAlone(leaf, before) ==
    Render(leaf, [renderCall.env EXCEPT !.placeholderOffset = @ + before])

\* The SQL a join with operator op drops, and the SQL that decides the join.
DroppedSQL(op)  == IF op = LogicalAnd THEN EmptySQL ELSE FalseSQL
DecidingSQL(op) == IF op = LogicalAnd THEN FalseSQL ELSE EmptySQL

\* The SQL of the leaves that are not dropped, in order, and their args.
RECURSIVE KeptLeaves(_, _, _, _, _)
KeptLeaves(leaves, i, op, parts, args) ==
    IF i > Len(leaves) THEN [parts |-> parts, args |-> args]
    ELSE With(LeafAlone(leaves[i], Len(args)), LAMBDA alone :
         IF alone.stmt.SQL = DroppedSQL(op)
         THEN KeptLeaves(leaves, i + 1, op, parts, args)
         ELSE KeptLeaves(leaves, i + 1, op, Append(parts, alone.stmt.SQL),
                         args \o alone.stmt.Args))

\* The join of the kept leaves: nothing kept gives the dropped SQL itself, one
\* part stands alone, two or more are joined in one pair of parentheses.
FlatJoin(op, parts) ==
    IF Len(parts) = 0 THEN DroppedSQL(op)
    ELSE IF Len(parts) = 1 THEN parts[1]
    ELSE JoinSQL(op, parts)

\* No leaf of the chain decides the join alone.
NoDecidingLeaf ==
    \A i \in 1..Len(InOrderLeaves(program, program.Operator)) :
        LeafAlone(InOrderLeaves(program, program.Operator)[i], 0).stmt.SQL
            # DecidingSQL(program.Operator)

\* C17: a tree of Logical nodes with one operator, in any nesting, renders to
\* one join of the SQL of its leaves that were not dropped, in the order of
\* the leaves, and the args are the args of those leaves in that order; a
\* child with the other operator is one leaf, rendered as its own group.
C17_FlatJoinOfKeptLeaves ==
    renderCall.done /\ program.k = "logical" /\ NoDecidingLeaf =>
        LET kept == KeptLeaves(InOrderLeaves(program, program.Operator), 1,
                               program.Operator, <<>>, <<>>)
        IN  /\ renderCall.err = ""
            /\ SQLText(renderCall.stmt.SQL) = SQLText(FlatJoin(program.Operator, kept.parts))
            /\ renderCall.stmt.Args = kept.args

\* A leaf of the chain was dropped after it added args to the renderer.
DroppedLeafHasArgs ==
    \E i \in 1..Len(InOrderLeaves(program, program.Operator)) :
        /\ LeafAlone(InOrderLeaves(program, program.Operator)[i], 0).stmt.SQL
               = DroppedSQL(program.Operator)
        /\ renderCondition(InOrderLeaves(program, program.Operator)[i], newRenderer,
                           renderCall.env).r.args # <<>>

\* The part of C17 the code keeps: the law holds whenever no dropped leaf had
\* added args, and the text of the join, read without the numbers of the
\* placeholders, is always the flat join.
C17_FlatJoinWithoutDroppedArgs ==
    renderCall.done /\ program.k = "logical" /\ NoDecidingLeaf =>
        LET kept == KeptLeaves(InOrderLeaves(program, program.Operator), 1,
                               program.Operator, <<>>, <<>>)
        IN  /\ renderCall.err = ""
            /\ renderCall.env.dialect = DialectSQLite =>
                   SQLText(renderCall.stmt.SQL) = SQLText(FlatJoin(program.Operator, kept.parts))
            /\ ~DroppedLeafHasArgs =>
                   /\ SQLText(renderCall.stmt.SQL)
                          = SQLText(FlatJoin(program.Operator, kept.parts))
                   /\ renderCall.stmt.Args = kept.args

\* ((creator_id == 1 OR true) AND visibility in [..]) AND creator_id == 1 on
\* Postgres: the join is flat, and numbered from $2, with four Args for three placeholders.
C17_DroppedGroupLeavesArgs ==
    /\ renderCall.done
    /\ program = LogicalCondition(LogicalAnd,
                     LogicalCondition(LogicalAnd,
                         LogicalCondition(LogicalOr, LeafCreator, LeafTrue), LeafVisibleIn),
                     LeafCreator)
    /\ renderCall.env.dialect = DialectPostgres
    /\ renderCall.env.placeholderOffset = 0
    /\ renderCall.stmt.SQL.k = "join" /\ Len(renderCall.stmt.SQL.parts) = 2
    /\ Len(renderCall.stmt.Args) = 4
    /\ Placeholders(renderCall.stmt.SQL)[1].n = 2

\* A nested chain of three kept leaves renders as one join of three parts.
C17_NestedChainIsFlat ==
    /\ renderCall.done
    /\ program = LogicalCondition(LogicalAnd, LeafCreator,
                     LogicalCondition(LogicalAnd, LeafVisibleIn, LeafCreator))
    /\ renderCall.stmt.SQL.k = "join" /\ Len(renderCall.stmt.SQL.parts) = 3

-----------------------------------------------------------------------------
(* Composing a role twice *)

\* A placeholder, and the placeholders of a piece of SQL, as they come out
\* when `by` args were added before them.
ShiftPlaceholder(ph, by, dialect) ==
    [ph EXCEPT !.alloc = @ + by,
               !.n = IF dialect = DialectPostgres THEN @ + by ELSE @]
RECURSIVE ShiftSQL(_, _, _)
ShiftSQL(sql, by, dialect) ==
    CASE sql.k \in {"cmp", "fmt"} ->
           [sql EXCEPT !.ph = ShiftPlaceholder(@, by, dialect)]
      [] sql.k = "template" ->
           [sql EXCEPT !.parts = [i \in 1..Len(sql.parts) |->
               IF sql.parts[i].tok = "ph"
               THEN [tok |-> "ph", ph |-> ShiftPlaceholder(sql.parts[i].ph, by, dialect)]
               ELSE sql.parts[i]]]
      [] sql.k = "in" ->
           [sql EXCEPT !.phs = [i \in 1..Len(sql.phs) |->
               ShiftPlaceholder(sql.phs[i], by, dialect)]]
      [] sql.k = "join" ->
           [sql EXCEPT !.parts = [i \in 1..Len(sql.parts) |->
               ShiftSQL(sql.parts[i], by, dialect)]]
      [] sql.k \in {"not", "paren"} -> [sql EXCEPT !.arg = ShiftSQL(@, by, dialect)]
      [] OTHER -> sql

\* The SQL of a disjunction of two copies of a condition whose SQL is sql and
\* has `count` args: a constant stays, the parts of an OR join are joined twice
\* over, anything else is joined with itself; the second copy is numbered
\* after the args of the first.
Repeated(sql, count, dialect) ==
    IF sql.k \in {"empty", "false"} THEN sql
    ELSE IF sql.k = "join" /\ sql.op = LogicalOr
         THEN JoinSQL(LogicalOr, sql.parts \o ShiftSQL(sql, count, dialect).parts)
         ELSE JoinSQL(LogicalOr, <<sql, ShiftSQL(sql, count, dialect)>>)

\* The statement of the pair is the statement of the single role repeated:
\* the SQL twice in one join, the args twice.
RepeatsStatement(pair, one, dialect) ==
    /\ pair.SQL = Repeated(one.SQL, Len(one.Args), dialect)
    /\ pair.Args = IF one.SQL.k \in {"empty", "false"} THEN one.Args
                   ELSE one.Args \o one.Args
    /\ pair.NamedArgs = one.NamedArgs

\* C18: NewFilterProgram for the role list [A, A] gives a program equivalent
\* to the one for [A]: the same error if any, the same rows granted, and for
\* every dialect the SQL of [A] repeated with its args duplicated.
C18_IdempotentCompose ==
    (buildCall.done /\ Len(buildCall.roles) = 2
                    /\ buildCall.roles[1] = buildCall.roles[2]) =>
        \E ord \in MapOrders :
            With(NewFilterProgram(rbac, <<buildCall.roles[1]>>, buildCall.permissions, ord),
              LAMBDA single :
                /\ buildCall.err = single.err
                /\ single.err = "" =>
                     /\ \A row \in Rows :
                            EvaluateCondition(buildCall.program, row)
                                = EvaluateCondition(single.program, row)
                     /\ \A d \in Dialects :
                            With(Render(single.program, RenderEnv(d, 0, NilBindings)),
                              LAMBDA one :
                                With(Render(buildCall.program, RenderEnv(d, 0, NilBindings)),
                                  LAMBDA pair :
                                    /\ pair.err = one.err
                                    /\ one.err = "" =>
                                         RepeatsStatement(pair.stmt, one.stmt, d))))

\* C18's case: the role list is [A, A], A holds a filter permission through
\* which it satisfies the request, and the program is a disjunction whose SQL
\* carries args.
C18_Witness ==
    /\ buildCall.done /\ buildCall.err = ""
    /\ Len(buildCall.roles) = 2 /\ buildCall.roles[1] = buildCall.roles[2]
    /\ buildCall.program.k = "logical" /\ buildCall.program.Operator = LogicalOr
    /\ buildCall.program.Left = buildCall.program.Right
    /\ Len(Render(buildCall.program, RenderEnv(DialectPostgres, 0, NilBindings)).stmt.Args) >= 2

\* The single role's condition is itself a disjunction of two variants, so the
\* pair renders as one join of four parts.
C18_VariantsRepeated ==
    /\ buildCall.done /\ buildCall.err = ""
    /\ Len(buildCall.roles) = 2 /\ buildCall.roles[1] = buildCall.roles[2]
    /\ buildCall.program.k = "logical" /\ buildCall.program.Left.k = "logical"
    /\ Render(buildCall.program, RenderEnv(DialectPostgres, 0, NilBindings)).stmt.SQL.k = "join"
    /\ Len(Render(buildCall.program, RenderEnv(DialectPostgres, 0, NilBindings)).stmt.SQL.parts) = 4

\* The role twice gave the same permissions both times, the second time from
\* the cache.
C18_SecondLookupFromCache ==
    (buildCall.done /\ Len(buildCall.roles) = 2
                    /\ buildCall.roles[1] = buildCall.roles[2]
                    /\ Len(buildCall.queried) = 2) =>
        buildCall.queried[1].perms = buildCall.queried[2].perms

-----------------------------------------------------------------------------
(* Named args *)

\* C19: a successful render with the Postgres named-args dialect writes the
\* i-th placeholder as @p<i>, stores one value per placeholder in NamedArgs
\* and leaves Args empty, for placeholders of sql() templates too.
C19_NamedArgsDialect ==
    (renderCall.done /\ renderCall.err = ""
                     /\ renderCall.env.dialect = DialectPostgresNamedArgs) =>
        LET phs == Placeholders(renderCall.stmt.SQL) IN
        /\ \A i \in 1..Len(phs) : phs[i].txt = "@p" /\ phs[i].n = i
        /\ renderCall.stmt.Args = <<>>
        /\ Len(phs) > 0 =>
               /\ ~renderCall.stmt.NamedArgs.isNil
               /\ Cardinality(DOMAIN renderCall.stmt.NamedArgs.m) = Len(phs)

\* creator_id == 1 rendered with postgres_pgx: the placeholder is ?, the
\* value is in Args and NamedArgs is nil.
C19_PositionalInstead ==
    /\ renderCall.done /\ renderCall.err = ""
    /\ program = LeafCreator
    /\ renderCall.env.dialect = DialectPostgresNamedArgs
    /\ Placeholders(renderCall.stmt.SQL) = <<[txt |-> "?", n |-> 0, alloc |-> 1]>>
    /\ renderCall.stmt.Args = <<IntV(1)>>
    /\ renderCall.stmt.NamedArgs = NilBindings

\* The same for the two placeholders of an sql() template.
C19_TemplatePositionalInstead ==
    /\ renderCall.done /\ renderCall.err = ""
    /\ program = PredBetween
    /\ renderCall.env.dialect = DialectPostgresNamedArgs
    /\ \A i \in 1..2 : Placeholders(renderCall.stmt.SQL)[i].txt = "?"
    /\ Len(renderCall.stmt.Args) = 2
    /\ renderCall.stmt.NamedArgs = NilBindings

-----------------------------------------------------------------------------
(* Column qualification *)

\* The qualified column inside a column expression.
RECURSIVE BaseColumn(_)
BaseColumn(col) ==
    IF "column" \in DOMAIN col THEN BaseColumn(col.column)
    ELSE IF "of" \in DOMAIN col THEN BaseColumn(col.of)
    ELSE col

\* The columns written into a piece of SQL.
RECURSIVE Columns(_)
Columns(sql) ==
    CASE sql.k \in {"cmp", "isnull", "in", "col", "fmt"} -> {BaseColumn(sql.col)}
      [] sql.k = "template" ->
           {BaseColumn(sql.parts[i].col) :
               i \in {j \in 1..Len(sql.parts) : sql.parts[j].tok = "col"}}
      [] sql.k = "join" -> UNION {Columns(sql.parts[i]) : i \in 1..Len(sql.parts)}
      [] sql.k \in {"not", "paren"} -> Columns(sql.arg)
      [] OTHER -> {}

\* The table the schema gives the field stored in a column.
SchemaTableOf(column) ==
    CHOOSE table \in {SchemaFields[n].Table :
                         n \in {m \in DOMAIN SchemaFields :
                                   SchemaFields[m].Column = column}} : TRUE

\* The qualifier the options ask for a column of a table; "" is no qualifier.
ExpectedQualifier(opts, table) ==
    IF opts.OmitTableQualifier THEN ""
    ELSE IF ~opts.TableAliases.isNil /\ table \in DOMAIN opts.TableAliases.m
         THEN opts.TableAliases.m[table]
         ELSE table

\* The render of the same program with neither option set.
PlainRender ==
    Render(program, rendererOptions(
        RenderOptions(renderCall.opts.Dialect, renderCall.opts.PlaceholderOffset,
                      NoTableAliases, FALSE),
        renderCall.env.bindings))

\* C20: in a successful render every column is qualified by the qualifier
\* TableAliases maps its schema table to (unqualified when that is the empty
\* string, the table name when it is unmapped), and by nothing when
\* OmitTableQualifier is set; the placeholders and the args are those of the
\* render without the two options.
C20_QualifierOptions ==
    (renderCall.done /\ renderCall.err = "") =>
        /\ \A col \in Columns(renderCall.stmt.SQL) :
               col.name # "" =>
                   col.table = ExpectedQualifier(renderCall.opts, SchemaTableOf(col.name))
        /\ Placeholders(renderCall.stmt.SQL) = Placeholders(PlainRender.stmt.SQL)
        /\ renderCall.stmt.Args = PlainRender.stmt.Args

\* What the code does with the two options: nothing, the statement is the one
\* of the render without them, every column qualified by its schema table.
C20_OptionsIgnored ==
    renderCall.done =>
        /\ renderCall.stmt = PlainRender.stmt
        /\ renderCall.err = PlainRender.err
        /\ renderCall.err = "" =>
               \A col \in Columns(renderCall.stmt.SQL) :
                   col.name # "" => col.table = SchemaTableOf(col.name)

\* creator_id == 1 rendered for Postgres with TableAliases {t: p}, with
\* TableAliases {t: ""} and with OmitTableQualifier: the column is t.creator_id
\* each time.
C20_AliasIgnored ==
    /\ renderCall.done /\ renderCall.err = "" /\ program = LeafCreator
    /\ renderCall.opts.Dialect = DialectPostgres
    /\ renderCall.opts.TableAliases = TableAliases([t |-> "p"])
    /\ Columns(renderCall.stmt.SQL) = {[quote |-> "none", table |-> "t", name |-> "creator_id"]}
C20_EmptyAliasIgnored ==
    /\ renderCall.done /\ renderCall.err = "" /\ program = LeafCreator
    /\ renderCall.opts.Dialect = DialectPostgres
    /\ renderCall.opts.TableAliases = TableAliases([t |-> ""])
    /\ Columns(renderCall.stmt.SQL) = {[quote |-> "none", table |-> "t", name |-> "creator_id"]}
C20_OmitIgnored ==
    /\ renderCall.done /\ renderCall.err = "" /\ program = LeafCreator
    /\ renderCall.opts.Dialect = DialectPostgres
    /\ renderCall.opts.OmitTableQualifier
    /\ Columns(renderCall.stmt.SQL) = {[quote |-> "none", table |-> "t", name |-> "creator_id"]}

-----------------------------------------------------------------------------
(* Hierarchical tags *)

\* The text of a JSON array of strings, on characters.
RECURSIVE JSONElements(_, _)
JSONElements(list, i) ==
    IF i > Len(list) THEN <<>>
    ELSE (IF i > 1 THEN <<",">> ELSE <<>>)
         \o <<"\"">> \o Chars(list[i].v) \o <<"\"">> \o JSONElements(list, i + 1)
JSONText(list) == <<"[">> \o JSONElements(list, 1) \o <<"]">>

\* The characters of an arg built by fmt.Sprintf from a format and a string.
PatternChars(arg) ==
    CASE arg.v[1] = "%\"%s\"%" -> <<"%", "\"">> \o Chars(arg.v[2]) \o <<"\"", "%">>
      [] arg.v[1] = "%\"%s/%"  -> <<"%", "\"">> \o Chars(arg.v[2]) \o <<"/", "%">>
      [] OTHER -> <<"\"">> \o Chars(arg.v[2]) \o <<"\"">>

\* text LIKE pattern: % stands for any run of characters, _ for any one.
RECURSIVE Like(_, _)
Like(pattern, text) ==
    IF pattern = <<>> THEN text = <<>>
    ELSE IF Head(pattern) = "%"
    THEN Like(Tail(pattern), text) \/ (text # <<>> /\ Like(pattern, Tail(text)))
    ELSE /\ text # <<>>
         /\ Head(pattern) = "_" \/ Head(pattern) = Head(text)
         /\ Like(Tail(pattern), Tail(text))

\* What the database computes for the SQL of renderAliasInList on a row: a
\* LIKE is matched against the text of the array, JSON_CONTAINS and @> test
\* that the JSON string of the arg is an element.
RECURSIVE SQLTagHolds(_, _, _, _)
SQLTagHolds(sql, stmt, env, row) ==
    CASE sql.k = "join" ->
           \E i \in 1..Len(sql.parts) : SQLTagHolds(sql.parts[i], stmt, env, row)
      [] sql.k = "fmt" ->
           LET arg == BoundArg(stmt, env, sql.ph).v IN
           IF sql.format \in {"%s LIKE %s", "(%s)::text LIKE %s"}
           THEN Like(PatternChars(arg), JSONText(row.tags.v))
           ELSE \E i \in 1..Len(row.tags.v) :
                    <<"\"">> \o Chars(row.tags.v[i].v) \o <<"\"">> = PatternChars(arg)
      [] OTHER -> FALSE

\* The strings a condition `alias in [...]` lists.
ListedTags(cond) == {cond.Values[i].Value.v : i \in 1..Len(cond.Values)}

\* A list element matches x: it is x, or the alias is tag and the element
\* begins with x followed by a slash.
TagMatches(alias, element, x) ==
    \/ element = x
    \/ /\ alias = "tag"
       /\ Len(Chars(element)) > Len(Chars(x))
       /\ \A k \in 1..Len(Chars(x)) : Chars(element)[k] = Chars(x)[k]
       /\ Chars(element)[Len(Chars(x)) + 1] = "/"

\* What the evaluator decides and what the renderer emits.
EvaluatorMatchesTags ==
    (grantCall.done /\ program.k = "in") =>
        /\ grantCall.err = ""
        /\ grantCall.val <=>
               \E i \in 1..Len(grantCall.row.tags.v), x \in ListedTags(program) :
                   TagMatches(program.Left.Name, grantCall.row.tags.v[i].v, x)
RendererEmitsTagTests ==
    (renderCall.done /\ program.k = "in") =>
        LET conditions == IF Len(program.Values) = 1 THEN <<renderCall.stmt.SQL>>
                          ELSE renderCall.stmt.SQL.parts
        IN  /\ renderCall.err = ""
            /\ Len(conditions) = Len(program.Values)
            /\ \A i \in 1..Len(conditions) :
                   IF program.Left.Name = "tag"
                   THEN /\ conditions[i].k = "join" /\ conditions[i].op = LogicalOr
                        /\ Len(conditions[i].parts) = 2
                        /\ conditions[i].parts[1] =
                               jsonExactMatch(conditions[i].parts[1].col,
                                              conditions[i].parts[1].ph, renderCall.env)
                        /\ conditions[i].parts[2].format \in
                               {"%s LIKE %s", "(%s)::text LIKE %s"}
                        /\ renderCall.stmt.Args[2 * i - 1] =
                               jsonExactArg(program.Values[i].Value.v, renderCall.env)
                        /\ renderCall.stmt.Args[2 * i] =
                               PatternV("%\"%s/%", program.Values[i].Value.v)
                   ELSE /\ conditions[i] =
                               jsonExactMatch(conditions[i].col, conditions[i].ph,
                                              renderCall.env)
                        /\ renderCall.stmt.Args[i] =
                               jsonExactArg(program.Values[i].Value.v, renderCall.env)
            /\ Len(renderCall.stmt.Args) =
                   (IF program.Left.Name = "tag" THEN 2 ELSE 1) * Len(program.Values)

\* The rendered SQL selects the row the evaluator was asked about.
SQLSelectsRow(d) ==
    LET env == RenderEnv(d, 0, NilBindings)
        res == Render(program, env)
    IN  res.err = "" /\ SQLTagHolds(res.stmt.SQL, res.stmt, env, grantCall.row)

\* C21: for `A in [x, ...]` with A an alias over a JSON list, a row matches
\* iff some element equals a listed x or, for the alias named tag only,
\* begins with x followed by a slash; the renderer emits per value the exact
\* test, OR-ed with the prefix LIKE (two args per value) only for tag; and the
\* rendered SQL selects the rows the evaluator grants.
C21_HierarchicalTags ==
    /\ EvaluatorMatchesTags
    /\ RendererEmitsTagTests
    /\ (grantCall.done /\ program.k = "in") =>
           \A d \in Dialects : SQLSelectsRow(d) <=> grantCall.val

\* The part of C21 the code keeps: the evaluator and the shape of the SQL
\* are as claimed, and the SQL selects the rows the evaluator grants whenever
\* no listed value holds a character that LIKE reads as a wildcard.
C21_ParityWithoutWildcards ==
    /\ EvaluatorMatchesTags
    /\ RendererEmitsTagTests
    /\ (grantCall.done /\ program.k = "in"
           /\ \A x \in ListedTags(program) :
                  \A k \in 1..Len(Chars(x)) : Chars(x)[k] \notin {"_", "%"}) =>
           \A d \in Dialects : SQLSelectsRow(d) <=> grantCall.val

\* `tag in ["fo_"]` on a row tagged foo: the evaluator says no, and the
\* sqlite LIKE on the array text says yes.
C21_WildcardSelectsMore ==
    /\ grantCall.done /\ ~grantCall.val /\ grantCall.err = ""
    /\ program = InCondition(FieldRef("tag"), <<LiteralValue(StrV("fo_"))>>)
    /\ grantCall.row = [tags |-> ListV(<<StrV("foo")>>)]
    /\ SQLSelectsRow(DialectSQLite)

\* `tag in ["foo"]`: foo/bar is granted and selected, foobar is neither.
C21_PrefixReached ==
    /\ grantCall.done /\ grantCall.val
    /\ program = InCondition(FieldRef("tag"), <<LiteralValue(StrV("foo"))>>)
    /\ grantCall.row = [tags |-> ListV(<<StrV("foobar"), StrV("foo/bar")>>)]
    /\ \A d \in Dialects : SQLSelectsRow(d)
C21_NoPrefixWithoutSlash ==
    /\ grantCall.done /\ ~grantCall.val
    /\ program = InCondition(FieldRef("tag"), <<LiteralValue(StrV("foo"))>>)
    /\ grantCall.row = [tags |-> ListV(<<StrV("foobar")>>)]
    /\ \A d \in Dialects : ~SQLSelectsRow(d)

-----------------------------------------------------------------------------
(* The compiled tree is read-only *)

C22_FailedRenderReached ==
    /\ renderCall.done /\ renderCall.err # ""
    /\ program.k = "cmp" /\ program.Right.k = "field"
C22_ChainReached ==
    /\ renderCall.done /\ renderCall.err = ""
    /\ program.k = "logical" /\ program.Left.k = "logical"
    /\ renderCall.stmt.SQL.k = "join" /\ Len(renderCall.stmt.SQL.parts) = 3

-----------------------------------------------------------------------------
(* Calls in any interleaving *)

\* C23: every RenderSQL or IsGranted call that has returned, whatever calls
\* ran in between its steps, returned the Statement and error, or the boolean
\* and error, that the same call returns when it runs alone.
C23_CallsIndependent ==
    \A call \in 1..Len(CallsBegun) :
        CallsBegun[call].pc = "returned" =>
            IF CallsBegun[call].kind = "render"
            THEN Render(program, CallsBegun[call].env)
                     = [stmt |-> CallsBegun[call].stmt, err |-> CallsBegun[call].err]
            ELSE EvaluateCondition(program, EvalVars(CallsBegun[call].row, NilBindings))
                     = [val |-> CallsBegun[call].val, err |-> CallsBegun[call].err]

\* The second call began, added args and returned while the first call was
\* between two of its children, having added args of its own.
C23_Witness ==
    /\ Len(CallsBegun) >= 2
    /\ CallsBegun[1].kind = "render" /\ CallsBegun[1].pc = "children"
    /\ CallsBegun[1].next = 2
    /\ Renderers[CallsBegun[1].renderer].args # <<>>
    /\ CallsBegun[2].kind = "render" /\ CallsBegun[2].pc = "returned"
    /\ CallsBegun[2].err = ""
    /\ Len(CallsBegun[2].stmt.Args) >= 2

\* Three render calls are between children at once, each at another child.
C23_ThreeInFlight ==
    /\ Len(CallsBegun) = 3
    /\ \A call \in 1..3 : CallsBegun[call].kind = "render" /\ CallsBegun[call].pc = "children"
    /\ CallsBegun[1].next = 3 /\ CallsBegun[2].next = 1 /\ CallsBegun[3].next = 2

\* An IsGranted call returned between two children of a render call that
\* returned after it.
C23_GrantBetweenChildren ==
    /\ Len(CallsBegun) >= 2
    /\ CallsBegun[1].kind = "render" /\ CallsBegun[1].pc = "returned"
    /\ CallsBegun[1].stmt.Args # <<>>
    /\ CallsBegun[2].kind = "grant" /\ CallsBegun[2].val

-----------------------------------------------------------------------------
(* The side swap *)

\* The Program is a comparison of a literal or a param with a field on the
\* right, and Straight is the same comparison with the field on the left.
ValueLeftOfField ==
    /\ program # NoProgram
    /\ program.k = "cmp"
    /\ program.Left.k \in {"lit", "param"}
    /\ program.Right.k = "field"
\* inv: = and != are kept, < and >, <= and >= are exchanged.
Inverse(op) ==
    CASE op = CompareLt  -> CompareGt
      [] op = CompareGt  -> CompareLt
      [] op = CompareLte -> CompareGte
      [] op = CompareGte -> CompareLte
      [] OTHER -> op
Straight == ComparisonCondition(program.Right, Inverse(program.Operator), program.Left)

\* C26: Comparison(v, op, f) renders to the Statement and error of
\* Comparison(f, inv(op), v); inv(inv(op)) = op; and on every row the
\* evaluator returns the same boolean for both forms, failing for both or for
\* neither.
C26_SideSwap ==
    ValueLeftOfField =>
        /\ invertComparisonOperator(invertComparisonOperator(program.Operator))
               = program.Operator
        /\ invertComparisonOperator(program.Operator) = Inverse(program.Operator)
        /\ renderCall.done =>
               Render(Straight, renderCall.env)
                   = [stmt |-> renderCall.stmt, err |-> renderCall.err]
        /\ grantCall.done =>
               With(EvaluateCondition(Straight, EvalVars(grantCall.row, grantCall.bindings)),
                    LAMBDA straight :
                        /\ straight.val = grantCall.val
                        /\ (straight.err = "") = (grantCall.err = ""))

\* `1 < creator_id` rendered with an arg and granted on a row where
\* `1 = creator_id` is false.
C26_Witness ==
    /\ ValueLeftOfField
    /\ program.Operator = CompareLt
    /\ renderCall.done /\ renderCall.err = "" /\ Len(renderCall.stmt.Args) = 1
    /\ grantCall.done /\ grantCall.val /\ grantCall.row.creator_id = IntV(2)

\* `current_user_id <= creator_id` is false on a row where the inverse order
\* of the operands would be true.
C26_OrderMatters ==
    /\ ValueLeftOfField
    /\ program.Left.k = "param" /\ program.Operator = CompareLte
    /\ grantCall.done /\ grantCall.err = "" /\ ~grantCall.val
    /\ EvaluateCondition(ComparisonCondition(program.Right, program.Operator, program.Left),
                         EvalVars(grantCall.row, grantCall.bindings)).val

\* Both forms fail on the row: the parameter is bound to a string and the
\* field is an int.
C26_BothFail ==
    /\ ValueLeftOfField
    /\ grantCall.done /\ grantCall.err # ""
    /\ grantCall.bindings = Bindings([current_user_id |-> StrV("PUBLIC")])
    /\ program.Right.Name = "creator_id" /\ program.Left.k = "param"

-----------------------------------------------------------------------------
(* The operator next to the column *)

\* A compiled comparison of a field and a value was rendered to a test of the
\* field's column.
ComparisonRendered ==
    /\ compileCall.done /\ compileCall.err = ""
    /\ program.k = "cmp"
    /\ renderCall.done /\ renderCall.err = ""
    /\ renderCall.stmt.SQL.k \in {"cmp", "isnull"}

\* The field of the comparison and the operator written next to its column
\* (IS NULL stands for =, IS NOT NULL for !=).
ComparedField ==
    SchemaField(IF program.Left.k = "field" THEN program.Left.Name
                ELSE program.Right.Name).field
WrittenOperator ==
    IF renderCall.stmt.SQL.k = "cmp" THEN renderCall.stmt.SQL.op
    ELSE IF renderCall.stmt.SQL.neg THEN CompareNeq ELSE CompareEq
OperatorAllowed(field, op) ==
    field.AllowedComparisonOps.isNil \/ op \in field.AllowedComparisonOps.keys

\* C29: whenever a comparison of a schema field with a literal or a param
\* compiles and renders, the operator written next to the field's column is
\* in the field's AllowedComparisonOps, on whichever side the field is.
C29_WrittenOperatorAllowed ==
    ComparisonRendered => OperatorAllowed(ComparedField, WrittenOperator)

\* The part of C29 the code keeps: the written operator is allowed when the
\* field is the left operand, and with the field on the right it is the
\* inverse of the operator compiled, allowed or not.
C29_AllowedWhenFieldLeft ==
    ComparisonRendered =>
        IF program.Left.k = "field"
        THEN /\ WrittenOperator = compileCall.op
             /\ OperatorAllowed(ComparedField, WrittenOperator)
        ELSE WrittenOperator = invertComparisonOperator(compileCall.op)

\* `1 < creator_id` compiles and renders as creator_id > ?, and > is not in
\* the allow-list of creator_id.
C29_SwappedOperatorNotAllowed ==
    /\ ComparisonRendered
    /\ compileCall.left = LiteralValue(IntV(1)) /\ compileCall.op = CompareLt
    /\ compileCall.right = FieldRef("creator_id")
    /\ WrittenOperator = CompareGt
    /\ ~OperatorAllowed(ComparedField, CompareGt)
    /\ Len(renderCall.stmt.Args) = 1

\* `creator_id < 1` does not compile.
C29_FieldLeftRejected ==
    /\ compileCall.done
    /\ compileCall.left = FieldRef("creator_id") /\ compileCall.op = CompareLt
    /\ compileCall.err # "" /\ program = NoProgram

-----------------------------------------------------------------------------
(* Short-circuit evaluation *)

\* The children of the Logical root evaluated alone on the vars of the call.
LeftAlone ==
    EvaluateCondition(program.Left, EvalVars(grantCall.row, grantCall.bindings))
RightAlone ==
    EvaluateCondition(program.Right, EvalVars(grantCall.row, grantCall.bindings))
Returned == [val |-> grantCall.val, err |-> grantCall.err]

\* The left child decides the node: false under AND, true under OR.
LeftDecides ==
    /\ LeftAlone.err = ""
    /\ LeftAlone.val = (program.Operator = LogicalOr)

\* C25: an error of the left child is returned, whatever the right child
\* gives; a left child that is false under AND, or true under OR, is the
\* result with no error, whatever the right child gives or raises; otherwise
\* the result and the error are those of the right child.
C25_ShortCircuit ==
    grantCall.done /\ program.k = "logical" =>
        IF LeftAlone.err # "" THEN Returned = [val |-> FALSE, err |-> LeftAlone.err]
        ELSE IF LeftDecides THEN Returned = [val |-> LeftAlone.val, err |-> ""]
        ELSE Returned = RightAlone

\* AND with a false left child and a right child that fails alone: false, no
\* error.
C25_Witness ==
    /\ grantCall.done /\ program.k = "logical" /\ program.Operator = LogicalAnd
    /\ LeftAlone.err = "" /\ ~LeftAlone.val
    /\ RightAlone.err # ""
    /\ grantCall.err = "" /\ ~grantCall.val

\* OR with a true left child and a right child that fails alone: true, no
\* error.
C25_OrSkipsFailingRight ==
    /\ grantCall.done /\ program.k = "logical" /\ program.Operator = LogicalOr
    /\ LeftAlone.err = "" /\ LeftAlone.val
    /\ RightAlone.err # ""
    /\ grantCall.err = "" /\ grantCall.val

\* The left child fails and the right child alone would decide: the error is
\* returned.
C25_LeftErrorReturned ==
    /\ grantCall.done /\ program.k = "logical" /\ program.Operator = LogicalOr
    /\ LeftAlone.err # ""
    /\ RightAlone.err = "" /\ RightAlone.val
    /\ grantCall.err = LeftAlone.err /\ ~grantCall.val

\* The left child does not decide and the right child fails: its error is
\* returned.
C25_RightErrorReturned ==
    /\ grantCall.done /\ program.k = "logical" /\ program.Operator = LogicalAnd
    /\ LeftAlone.err = "" /\ LeftAlone.val
    /\ RightAlone.err # ""
    /\ grantCall.err = RightAlone.err

-----------------------------------------------------------------------------
(* The order of the listed roles *)

\* The build recorded in buildCall is the build under map order ord, and
\* Reordered is the build of the same roles in the other order.
BuiltUnder(ord) ==
    With(NewFilterProgram(rbac, buildCall.roles, buildCall.permissions, ord), LAMBDA res :
        /\ res.program = buildCall.program
        /\ res.queried = buildCall.queried)
Reordered(ord) ==
    NewFilterProgram(rbac, <<buildCall.roles[2], buildCall.roles[1]>>,
                     buildCall.permissions, ord)

\* The permissions the cache returned for a role during a build.
QueriedPerms(queried, role) ==
    UNION {SeqRange(queried[i].perms) : i \in {j \in 1..Len(queried) : queried[j].role = role}}

\* The two builds return the same permission set for every listed role and
\* their programs grant the same rows.
SameAsReordered(ord) ==
    With(Reordered(ord), LAMBDA other :
        /\ other.err = ""
        /\ \A i \in 1..2 :
               QueriedPerms(other.queried, buildCall.roles[i])
                   = QueriedPerms(buildCall.queried, buildCall.roles[i])
        /\ \A row \in Rows :
               EvaluateCondition(other.program, row)
                   = EvaluateCondition(buildCall.program, row))

\* No role of the graph reaches itself through parent edges.
Acyclic(g) == \A r \in g.roles : r \notin Reach(g, g.parents[r])

\* C28: for any role graph, cyclic or not, a build over two roles and the
\* build over the same roles in the other order return the same permission
\* set for each role, and the two programs grant the same rows.
C28_CacheTransparent ==
    buildCall.done /\ buildCall.err = "" /\ Len(buildCall.roles) = 2 =>
        \A ord \in MapOrders : BuiltUnder(ord) => SameAsReordered(ord)

\* The part of C28 the code keeps: the order of the listed roles does not
\* matter when the role graph has no cycle.
C28_TransparentWithoutCycles ==
    buildCall.done /\ buildCall.err = "" /\ Len(buildCall.roles) = 2 /\ Acyclic(rbac) =>
        \A ord \in MapOrders : BuiltUnder(ord) => SameAsReordered(ord)

\* role-a and role-b are each other's parent, role-c inherits from one of
\* them; listed after role-c, the role on the cycle got its own permissions
\* only, and listed first it gets those of both.
C28_PartialClosureFromCache ==
    /\ buildCall.done /\ buildCall.err = "" /\ Len(buildCall.roles) = 2
    /\ buildCall.roles[1] = "role-c"
    /\ ~Acyclic(rbac)
    /\ \E ord \in MapOrders :
           /\ BuiltUnder(ord)
           /\ QueriedPerms(buildCall.queried, buildCall.roles[2])
                  # QueriedPerms(Reordered(ord).queried, buildCall.roles[2])

\* The two orders of the listed roles give programs that decide a row
\* differently.
C28_OrderChangesGrant ==
    /\ buildCall.done /\ buildCall.err = "" /\ Len(buildCall.roles) = 2
    /\ \E ord \in MapOrders :
           /\ BuiltUnder(ord)
           /\ Reordered(ord).err = ""
           /\ \E row \in Rows :
                  EvaluateCondition(buildCall.program, row).val
                      # EvaluateCondition(Reordered(ord).program, row).val

\* Two roles with a shared parent are listed in an acyclic graph: the second
\* role's closure takes the parent from the cache.
C28_SharedAncestorFromCache ==
    /\ buildCall.done /\ buildCall.err = "" /\ Len(buildCall.roles) = 2
    /\ Acyclic(rbac)
    /\ rbac.parents[buildCall.roles[1]] \cap rbac.parents[buildCall.roles[2]] # {}
    /\ \A i \in 1..2 : buildCall.queried[i].perms # <<>>

-----------------------------------------------------------------------------
(* Hooks run in registration order *)

\* The non-nil options, in the order they were given.
RECURSIVE NonNil(_)
NonNil(options) ==
    IF options = <<>> THEN <<>>
    ELSE IF Head(options) = NilHook THEN NonNil(Tail(options))
    ELSE <<Head(options)>> \o NonNil(Tail(options))

\* What call k of a hook returned, and the calls before call k that returned
\* a condition.
ReturnOf(k) == CallHook(compileCall.calls[k].hook, compileCall.calls[k].cond)
ReturnedBefore(k) ==
    {j \in 1..(k - 1) : ReturnOf(j).err = "" /\ ReturnOf(j).cond # NilCondition}

\* The current condition after the first k - 1 calls: what the latest of them
\* that returned a condition returned, or the IR as built.
CurrentAt(k) ==
    IF ReturnedBefore(k) = {} THEN compileCall.built
    ELSE ReturnOf(CHOOSE j \in ReturnedBefore(k) : \A i \in ReturnedBefore(k) : i <= j).cond

\* C27: the registered hooks are the non-nil hooks given, in that order; the
\* hooks are called in registration order, hook k with the current condition;
\* the first hook that returns an error ends the calls, and Compile returns
\* that error and no Program; with no error every hook is called and the
\* Program holds the current condition after the last one.
C27_HooksInOrder ==
    compileCall.done /\ "calls" \in DOMAIN compileCall =>
        /\ compileCall.hooks = NonNil(compileCall.options)
        /\ Len(compileCall.calls) <= Len(compileCall.hooks)
        /\ \A k \in 1..Len(compileCall.calls) :
               /\ compileCall.calls[k].hook = compileCall.hooks[k]
               /\ compileCall.calls[k].cond = CurrentAt(k)
               /\ k < Len(compileCall.calls) => ReturnOf(k).err = ""
        /\ IF compileCall.calls # <<>> /\ ReturnOf(Len(compileCall.calls)).err # ""
           THEN /\ compileCall.err = ReturnOf(Len(compileCall.calls)).err
                /\ program = NoProgram
           ELSE /\ Len(compileCall.calls) = Len(compileCall.hooks)
                /\ compileCall.err = ""
                /\ program = CurrentAt(Len(compileCall.calls) + 1)

\* `creator_id == current_user_id && visibility in [...]` with the hooks
\* dropRight, a nil hook and negate: two hooks are registered, the second
\* receives the left side, and the Program is its negation.
C27_Witness ==
    /\ compileCall.done /\ "calls" \in DOMAIN compileCall
    /\ compileCall.options = <<"dropRight", NilHook, "negate">>
    /\ compileCall.hooks = <<"dropRight", "negate">>
    /\ compileCall.built = LogicalCondition(LogicalAnd, LeafSelfUser, LeafVisibleIn)
    /\ Len(compileCall.calls) = 2
    /\ compileCall.calls[2].cond = LeafSelfUser
    /\ program = NotCondition(LeafSelfUser)

\* A hook that returns nil between two hooks that return a condition: the
\* third hook receives what the first returned.
C27_NilKeepsCurrent ==
    /\ compileCall.done /\ "calls" \in DOMAIN compileCall
    /\ compileCall.hooks = <<"andPinned", "rejectNot", "negate">>
    /\ compileCall.built = LeafCreator
    /\ Len(compileCall.calls) = 3
    /\ compileCall.calls[3].cond = LogicalCondition(LogicalAnd, LeafCreator, LeafPinned)
    /\ program = NotCondition(LogicalCondition(LogicalAnd, LeafCreator, LeafPinned))

\* The second of three hooks fails: the third is not called and there is no
\* Program.
C27_ErrorEndsCompile ==
    /\ compileCall.done /\ "calls" \in DOMAIN compileCall
    /\ compileCall.hooks = <<"negate", "rejectNot", "andPinned">>
    /\ Len(compileCall.calls) = 2
    /\ compileCall.err = "negation rejected"
    /\ program = NoProgram

\* The same hooks in another order give another Program.
C27_OrderMatters ==
    /\ compileCall.done /\ "calls" \in DOMAIN compileCall
    /\ compileCall.hooks = <<"negate", "andPinned">>
    /\ program = LogicalCondition(LogicalAnd, NotCondition(compileCall.built), LeafPinned)
    /\ program # runHooks(<<"andPinned", "negate">>, 1, compileCall.built, <<>>).cond

-----------------------------------------------------------------------------
(* Adding a role to the list *)

\* The role list with one more role put in after the first `at` roles.
Inserted(roles, at, role) ==
    SubSeq(roles, 1, at) \o <<role>> \o SubSeq(roles, at + 1, Len(roles))

\* The rows the built program grants.
GrantedRows ==
    {row \in Rows : EvaluateCondition(buildCall.program, row) = [val |-> TRUE, err |-> ""]}

\* Every row of `granted` is granted, without an error, by the program of
\* every list that has one more role than the built one and composes.
StillGranted(granted, ord) ==
    \A role \in RoleIDs, at \in 0..Len(buildCall.roles) :
        With(NewFilterProgram(rbac, Inserted(buildCall.roles, at, role),
                              buildCall.permissions, ord),
             LAMBDA longer :
                 longer.err = "" =>
                     \A row \in granted :
                         EvaluateCondition(longer.program, row) = [val |-> TRUE, err |-> ""])

\* C30: when NewFilterProgram succeeds for a role list and for the list with
\* one more role inserted at any position, every row the first program grants
\* is granted by the second.
C30_AddingRoleKeepsAccess ==
    buildCall.done /\ buildCall.err = "" =>
        With(GrantedRows, LAMBDA granted :
            granted # {} =>
                \A ord \in MapOrders : BuiltUnder(ord) => StillGranted(granted, ord))

\* The part of C30 the code keeps: a role added to the list revokes nothing
\* when the role graph has no cycle.
C30_KeepsAccessWithoutCycles ==
    buildCall.done /\ buildCall.err = "" /\ Acyclic(rbac) =>
        With(GrantedRows, LAMBDA granted :
            granted # {} =>
                \A ord \in MapOrders : BuiltUnder(ord) => StillGranted(granted, ord))

\* The program of [role-c] grants every row and the program of
\* [role-b, role-c] grants none: role-b, queried first, leaves role-a in the
\* cache with a closure that lacks role-b.
C30_AddedRoleRevokes ==
    /\ buildCall.done /\ buildCall.err = ""
    /\ buildCall.roles = <<"role-c">>
    /\ GrantedRows = Rows
    /\ \E ord \in MapOrders :
           /\ BuiltUnder(ord)
           /\ With(NewFilterProgram(rbac, <<"role-b", "role-c">>, buildCall.permissions, ord),
                   LAMBDA longer :
                       longer.err = "" /\ longer.program = ConstantCondition(FALSE))

\* In an acyclic graph a role added to the list grants rows the shorter list
\* did not grant.
C30_AddedRoleGrantsMore ==
    /\ buildCall.done /\ buildCall.err = "" /\ Acyclic(rbac)
    /\ Len(buildCall.roles) = 1
    /\ \E row \in Rows : ~EvaluateCondition(buildCall.program, row).val
    /\ \E role \in RoleIDs, ord \in MapOrders, row \in Rows :
           /\ ~EvaluateCondition(buildCall.program, row).val
           /\ EvaluateCondition(
                  NewFilterProgram(rbac, Append(buildCall.roles, role),
                                   buildCall.permissions, ord).program, row).val

-----------------------------------------------------------------------------
(* The Role under concurrent calls *)

\* A goroutine is between its lock and its access of the map.
InSection(t) == stdRole.threads[t].pc = "locked"

\* Two goroutines are about to access the permissions map with no lock
\* between them, and one of them writes it.
MapRace ==
    \E t1, t2 \in Threads :
        /\ t1 # t2
        /\ InSection(t1) /\ InSection(t2)
        /\ Writes(stdRole.threads[t1].op)

\* A call that returned took no lock on the path of the zero Permission and
\* one lock on every other path, and released as many as it took; when no
\* call is running no mutex is locked.
LocksPaired ==
    /\ \A t \in Threads :
           (stdRole.threads[t].pc = "idle" /\ stdRole.threads[t].calls > 0) =>
               /\ stdRole.threads[t].taken = (IF stdRole.threads[t].path = "zero" THEN 0 ELSE 1)
               /\ stdRole.threads[t].released = stdRole.threads[t].taken
    /\ (\A t \in Threads : stdRole.threads[t].pc = "idle") =>
           \A m \in 1..Len(stdRole.mutexes) : stdRole.mutexes[m] = NewRWMutex

RoleSafe == ~MapRace /\ ~stdRole.fatal /\ LocksPaired

\* C24: Assign, Revoke, Permit and Permissions called concurrently on one
\* Role never access the permissions map while another call writes it, and
\* every lock taken is released exactly once on every return path, also on a
\* Role whose mutex and map are nil and created by init().
C24_RoleThreadSafe == stdRole # NoRole => RoleSafe

\* The part of C24 the code keeps: a Role made by NewRole is safe.
C24_SafeAfterNewRole == (stdRole # NoRole /\ ~stdRole.lazy) => RoleSafe

\* Two goroutines each created a mutex in init(); one holds the write lock of
\* the first, the other a lock of the second, and both are about to access
\* the map.
C24_TwoMutexes ==
    /\ stdRole # NoRole /\ stdRole.lazy
    /\ Len(stdRole.mutexes) = 2
    /\ stdRole.mutexes[1].w
    /\ stdRole.mutexes[2].w \/ stdRole.mutexes[2].r > 0
    /\ MapRace

\* A goroutine locked the first mutex and unlocks the second, which is not
\* locked: the runtime ends the process.
C24_UnlockOfUnlocked ==
    /\ stdRole # NoRole /\ stdRole.fatal
    /\ Len(stdRole.mutexes) = 2
    /\ stdRole.mutexes[1].w /\ stdRole.mutexes[2] = NewRWMutex

\* The second make() replaced the map after a permission was assigned: both
\* Assign calls returned and the Role holds one permission.
C24_AssignLost ==
    /\ stdRole # NoRole /\ ~stdRole.fatal
    /\ \A t \in Threads :
           /\ stdRole.threads[t].pc = "idle" /\ stdRole.threads[t].calls = 1
           /\ stdRole.threads[t].op = "Assign"
    /\ stdRole.threads[1].p # stdRole.threads[2].p
    /\ Cardinality(stdRole.maps[stdRole.permissions]) = 1

\* On a Role made by NewRole every return path of Permit is taken while the
\* other goroutine is calling, and two readers hold the mutex together.
C24_PermitPathsReached ==
    /\ stdRole # NoRole /\ ~stdRole.lazy
    /\ stdRole.threads[1].op = "Permit" /\ stdRole.threads[1].path = "scan"
    /\ stdRole.threads[1].pc = "idle"
    /\ stdRole.threads[2].pc \in {"lock", "locked", "unlock"}
C24_FastPathReached ==
    /\ stdRole # NoRole /\ ~stdRole.lazy
    /\ stdRole.threads[1].op = "Permit" /\ stdRole.threads[1].path = "fast"
    /\ stdRole.mutexes[1].r = 2
C24_MissReached ==
    /\ stdRole # NoRole /\ ~stdRole.lazy
    /\ stdRole.threads[2].op = "Permit" /\ stdRole.threads[2].path = "miss"
    /\ stdRole.threads[2].pc = "idle"
    /\ stdRole.threads[1].pc = "lock" /\ Writes(stdRole.threads[1].op)



=============================================================================
